---- MODULE Spec2Model ----
(***************************************************************************)
(* Verification model of the rustnes emulator core: the PPU register file  *)
(* (ppu_registers.rs), the PPU dot/scanline state machine (ppu.rs), the    *)
(* CPU bus (ram_controller.rs, vram_controller.rs), the CPU interrupt and  *)
(* instruction paths used by the boot programs (cpu.rs, opcodes.rs,        *)
(* cpuregisters.rs, stack.rs) and the orchestrator loop (main.rs).         *)
(***************************************************************************)
EXTENDS Integers, Sequences, FiniteSets, TLC

VARIABLES
    ppu,          \* PPU struct: position, fetch pipeline, cycle bookkeeping
    ppu_regs,     \* PPURegisters cell shared by the bus and the PPU
    registers,    \* CPURegisters
    memory,       \* RamController.memory: cells that differ from the loaded image
    vram,         \* VRAMController.memory: cells that are not 0
    oam,          \* VRAMController.oam: cells that are not 0
    panicked,     \* the process died of a Rust panic
    checks,       \* the build panics on integer overflow (debug) or wraps (release)
    total_cycles, \* main: total_cycles
    running,      \* main: the 'running loop has not been left
    rom,          \* which PRG bank the cartridge holds
    dots_handed,  \* observation: sum of the arguments of PPU::process
    vblank_sets,  \* observation: number of PPURegisters::set_vblank calls
    nmi_count,    \* observation: number of CPU::trigger_nmi calls
    iteration,    \* observation: number of operations performed
    seq,          \* observation: $2005/$2006 writes since the last $2002 read
    last          \* observation: what the last operation was given and returned

vars == <<ppu, ppu_regs, registers, memory, vram, oam, panicked, checks,
          total_cycles, running, rom, dots_handed, vblank_sets, nmi_count,
          iteration, seq, last>>

----------------------------------------------------------------------------
(* Bit operations on unsigned integers of bounded width.                    *)

RECURSIVE BitAnd(_, _)
BitAnd(x, y) ==
    IF x = 0 \/ y = 0 THEN 0
    ELSE (x % 2) * (y % 2) + 2 * BitAnd(x \div 2, y \div 2)

RECURSIVE BitOr(_, _)
BitOr(x, y) ==
    IF x = 0 THEN y
    ELSE IF y = 0 THEN x
    ELSE (IF x % 2 = 1 \/ y % 2 = 1 THEN 1 ELSE 0) + 2 * BitOr(x \div 2, y \div 2)

RECURSIVE BitXor(_, _)
BitXor(x, y) ==
    IF x = 0 THEN y
    ELSE IF y = 0 THEN x
    ELSE ((x + y) % 2) + 2 * BitXor(x \div 2, y \div 2)

\* !mask for a u8 operand
Not8(x) == 255 - x

Min(a, b) == IF a < b THEN a ELSE b

----------------------------------------------------------------------------
(* ppu_registers.rs                                                         *)

PPURegisters_new ==
    [ppuaddr |-> 0, ppuctrl |-> 0, ppumask |-> 0, oamaddr |-> 0,
     ppuscroll_x |-> 0, ppuscroll_y |-> 0, ppustatus |-> 0,
     ppuscroll_toggle |-> FALSE, ppuaddr_toggle |-> FALSE,
     in_powerup_state |-> TRUE]

set_last_written_value(regs, value) ==
    [regs EXCEPT !.ppustatus = BitOr(BitAnd(regs.ppustatus, 224), BitAnd(value, 31))]

set_ppuctrl(regs, value) ==
    IF regs.in_powerup_state THEN set_last_written_value(regs, value)
    ELSE [set_last_written_value(regs, value) EXCEPT !.ppuctrl = value]

set_ppumask(regs, value) ==
    IF regs.in_powerup_state THEN set_last_written_value(regs, value)
    ELSE [set_last_written_value(regs, value) EXCEPT !.ppumask = value]

set_oamaddr(regs, value) ==
    set_last_written_value([regs EXCEPT !.oamaddr = value], value)

\* set_ppuscroll without the early return of the power-up state
set_ppuscroll_always(regs, value) ==
    IF regs.ppuscroll_toggle
    THEN [set_last_written_value(regs, value) EXCEPT
             !.ppuscroll_y = value, !.ppuscroll_toggle = ~regs.ppuscroll_toggle]
    ELSE [set_last_written_value(regs, value) EXCEPT
             !.ppuscroll_x = value, !.ppuscroll_toggle = ~regs.ppuscroll_toggle]

set_ppuscroll(regs, value) ==
    IF regs.in_powerup_state THEN set_last_written_value(regs, value)
    ELSE IF regs.ppuscroll_toggle
    THEN [set_last_written_value(regs, value) EXCEPT
             !.ppuscroll_y = value, !.ppuscroll_toggle = ~regs.ppuscroll_toggle]
    ELSE [set_last_written_value(regs, value) EXCEPT
             !.ppuscroll_x = value, !.ppuscroll_toggle = ~regs.ppuscroll_toggle]

set_ppuaddr(regs, value) ==
    IF regs.in_powerup_state THEN set_last_written_value(regs, value)
    ELSE IF regs.ppuaddr_toggle
    THEN [set_last_written_value(regs, value) EXCEPT
             !.ppuaddr = BitOr(BitAnd(regs.ppuaddr, 65280), value),
             !.ppuaddr_toggle = ~regs.ppuaddr_toggle]
    ELSE [set_last_written_value(regs, value) EXCEPT
             !.ppuaddr = BitOr(BitAnd(regs.ppuaddr, 255), value * 256),
             !.ppuaddr_toggle = ~regs.ppuaddr_toggle]

set_vblank(regs) == [regs EXCEPT !.ppustatus = BitOr(regs.ppustatus, 128)]

clear_vblank(regs) == [regs EXCEPT !.ppustatus = BitAnd(regs.ppustatus, Not8(128))]

\* status that leaves the VBlank flag set
status_keep_vblank(regs) ==
    [result |-> regs.ppustatus,
     regs   |-> [regs EXCEPT !.ppuscroll_toggle = FALSE, !.ppuaddr_toggle = FALSE]]

\* status that leaves the write toggles alone
status_keep_toggles(regs) ==
    [result |-> regs.ppustatus, regs |-> clear_vblank(regs)]

\* status(&mut self) -> u8: the value returned and the register file left behind
status(regs) ==
    [result |-> regs.ppustatus,
     regs   |-> [clear_vblank(regs) EXCEPT !.ppuscroll_toggle = FALSE,
                                           !.ppuaddr_toggle = FALSE]]

should_generate_nmi(regs) == BitAnd(regs.ppuctrl, 128) = 128

set_powerup_state(regs, state) == [regs EXCEPT !.in_powerup_state = state]

----------------------------------------------------------------------------
(* ppu.rs                                                                   *)

ScanlineDots == 341
FrameScanlines == 262
VBlankScanline == 241
PreRenderScanline == 261
FrameDots == FrameScanlines * ScanlineDots

\* The latched fetch results (name_table, attribute_table, pattern_table_*)
\* are only ever assigned 0 and never read; they are left out of the record.
PPU_new ==
    [frame_cycle |-> 0, scanline_cycle |-> 0, scanline |-> 0,
     cycle_remainders |-> 0, idle_cycle |-> TRUE, cycle_deduction |-> 0,
     fetch_state |-> "NameTable"]

\* spend_cycles that forgets the dot still owed by a fetch cut short
spend_cycles_no_carry(p, cycles0) ==
    IF p.cycle_remainders = 0 THEN [p |-> p, ok |-> FALSE]
    ELSE LET cycles == cycles0 - p.cycle_deduction
         IN  IF p.cycle_remainders >= cycles
             THEN [p  |-> [p EXCEPT !.cycle_remainders = @ - cycles,
                                    !.scanline_cycle = @ + cycles,
                                    !.frame_cycle = @ + cycles,
                                    !.cycle_deduction = 0],
                   ok |-> TRUE]
             ELSE [p  |-> [p EXCEPT !.scanline_cycle = @ + p.cycle_remainders,
                                    !.frame_cycle = @ + p.cycle_remainders,
                                    !.cycle_deduction = 0,
                                    !.cycle_remainders = 0],
                   ok |-> FALSE]

\* spend_cycles(&mut self, cycles) -> bool
spend_cycles(p, cycles0) ==
    IF p.cycle_remainders = 0 THEN [p |-> p, ok |-> FALSE]
    ELSE LET cycles == cycles0 - p.cycle_deduction
         IN  IF p.cycle_remainders >= cycles
             THEN [p  |-> [p EXCEPT !.cycle_remainders = @ - cycles,
                                    !.scanline_cycle = @ + cycles,
                                    !.frame_cycle = @ + cycles,
                                    !.cycle_deduction = 0],
                   ok |-> TRUE]
             ELSE [p  |-> [p EXCEPT !.scanline_cycle = @ + p.cycle_remainders,
                                    !.frame_cycle = @ + p.cycle_remainders,
                                    !.cycle_deduction = cycles - p.cycle_remainders,
                                    !.cycle_remainders = 0],
                   ok |-> FALSE]

\* the state after spend_cycles(2) returned r: the fetch moves on if it was paid
fetched(r, to) == IF r.ok THEN [r.p EXCEPT !.fetch_state = to] ELSE r.p

\* if self.fetch_state == from && self.spend_cycles(2) { self.fetch_state = to }
fetch_phase(p, from, to) ==
    IF p.fetch_state = from THEN fetched(spend_cycles(p, 2), to) ELSE p

\* the four 2-dot phases of one tile
fetch_tile(p) ==
    fetch_phase(
      fetch_phase(
        fetch_phase(
          fetch_phase(p, "NameTable", "AttributeTable"),
          "AttributeTable", "PatternTableTileLow"),
        "PatternTableTileLow", "PatternTableTileHigh"),
      "PatternTableTileHigh", "NameTable")

\* if self.idle_cycle && self.spend_cycles(1) { self.idle_cycle = false }
idle_spent(r) == IF r.ok THEN [r.p EXCEPT !.idle_cycle = FALSE] ELSE r.p
idle_dot(p) == IF p.idle_cycle THEN idle_spent(spend_cycles(p, 1)) ELSE p

\* dots 1..256, 257..320, 321..336 and 337..340 of a rendered scanline
tile_fetches(p) ==
    IF p.scanline_cycle > 0 /\ p.scanline_cycle < 257 THEN fetch_tile(p) ELSE p
sprite_fetches(p) ==
    IF p.scanline_cycle > 256 /\ p.scanline_cycle < 321 THEN fetch_tile(p) ELSE p
next_line_fetches(p) ==
    IF p.scanline_cycle > 320 /\ p.scanline_cycle < 337 THEN fetch_tile(p) ELSE p
\* dots 337..340 as one fetch that is started twice
dummy_fetches_single(p) ==
    IF p.scanline_cycle > 336 /\ p.scanline_cycle < 341
    THEN fetch_phase(p, "NameTable", "NameTable")
    ELSE p
dummy_fetches(p) ==
    IF p.scanline_cycle > 336 /\ p.scanline_cycle < 341
    THEN fetch_phase(fetch_phase(p, "NameTable", "AttributeTable"),
                     "AttributeTable", "NameTable")
    ELSE p

render_visible_scanlines(p) ==
    dummy_fetches(next_line_fetches(sprite_fetches(tile_fetches(idle_dot(p)))))

\* the condition under which process_internal sets the VBlank flag
vblank_edge_always(scanline, scanline_cycle_before, scanline_cycle) ==
    scanline = 241 /\ scanline_cycle >= 1

vblank_edge(scanline, scanline_cycle_before, scanline_cycle) ==
    scanline = 241 /\ scanline_cycle_before < 1 /\ scanline_cycle >= 1

\* if self.scanline < 240 || self.scanline == 261 { render_visible_scanlines }
render_step(p) ==
    IF p.scanline < 240 \/ p.scanline = 261 THEN render_visible_scanlines(p) ELSE p

in_vblank_lines(p) == p.scanline >= 240 /\ p.scanline < 261

\* scanlines 240..260: spend what is left, up to the end of the scanline
blank_step(pa) ==
    IF in_vblank_lines(pa)
    THEN spend_cycles(pa, Min(pa.cycle_remainders, 341 - pa.scanline_cycle)).p
    ELSE pa

\* pa is the PPU before the spend of blank_step and pb after it
edge_passed(pa, pb) ==
    in_vblank_lines(pa) /\ vblank_edge(pb.scanline, pa.scanline_cycle, pb.scanline_cycle)

\* if self.scanline == 262 { self.scanline = 0; self.frame_cycle = 0 }
wrap_frame(w) ==
    IF w.scanline = 262 THEN [w EXCEPT !.scanline = 0, !.frame_cycle = 0] ELSE w

\* if self.scanline_cycle == 341 { ... }
wrap_scanline(pb) ==
    IF pb.scanline_cycle = 341
    THEN wrap_frame([pb EXCEPT !.scanline_cycle = 0, !.scanline = @ + 1,
                               !.idle_cycle = TRUE])
    ELSE pb

process_internal_result(st, pa, pb) ==
    [p    |-> wrap_scanline(pb),
     done |-> FALSE,
     regs |-> IF edge_passed(pa, pb) THEN set_vblank(st.regs) ELSE st.regs,
     nmi  |-> st.nmi \/ (edge_passed(pa, pb) /\ should_generate_nmi(set_vblank(st.regs))),
     sets |-> st.sets + (IF edge_passed(pa, pb) THEN 1 ELSE 0)]

process_internal_blank(st, pa) == process_internal_result(st, pa, blank_step(pa))

\* process_internal(&mut self) -> PPUResult.  st = [p, regs, nmi, sets]:
\* nmi accumulates the VBlankNMI result, sets counts the set_vblank calls.
process_internal(st) == process_internal_blank(st, render_step(st.p))

\* if unspent_cycles == self.cycle_remainders { break }
process_break(unspent_cycles, nx) ==
    [nx EXCEPT !.done = (unspent_cycles = nx.p.cycle_remainders)]

\* One pass of the `loop` of PPU::process: call process_internal, then break
\* when it spent nothing.  done records that the break was taken.
process_pass(st) ==
    IF st.done THEN st
    ELSE process_break(st.p.cycle_remainders, process_internal(st))

\* Up to 2^k passes of the loop, stopping at the break.  The loop is unrolled
\* by halving so that a long catch-up (an OAM DMA, a whole scanline) does not
\* nest one evaluation per pass.
RECURSIVE process_passes(_, _)
process_passes(st, k) ==
    IF st.done THEN st
    ELSE IF k = 0 THEN process_pass(st)
    ELSE process_passes(process_passes(st, k - 1), k - 1)

LoopChunk == 10

RECURSIVE process_loop(_)
process_again(r) == IF r.done THEN r ELSE process_loop(r)
process_loop(st) == process_again(process_passes(st, LoopChunk))

\* process(&mut self, ppu_cycles) -> PPUResult
process(p, regs, ppu_cycles) ==
    process_loop([p    |-> [p EXCEPT !.cycle_remainders = @ + ppu_cycles],
                  regs |-> regs, nmi |-> FALSE, sets |-> 0, done |-> FALSE])

----------------------------------------------------------------------------
(* cartridge.rs / main.rs: the PRG banks and where main copies them         *)

PRG_BANK1_LOCATION == 32768
PRG_BANK2_LOCATION == 49152
PRG_BANK_SIZE == 16384

NMI_VECTOR == 65530
RESET_VECTOR == 65532

\* Number of STA $4014 instructions the "dma" and "late" boot programs use
\* to wait: "dma" waits past cycle 29,658 and two VBlanks, "late" until
\* shortly before the first VBlank.
DmaWaits == 112
LateWaits == 52
NmiWaits == 53
NmiHandler == PRG_BANK1_LOCATION + 4096

\* the byte at offset off >= 2 of a program whose waits end at offset e and
\* are followed by the bytes of tail
AfterWaits(off, e, tail) ==
    IF off < e
    THEN (CASE (off - 2) % 3 = 0 -> 141
            [] (off - 2) % 3 = 1 -> 20
            [] OTHER -> 64)
    ELSE IF off - e < Len(tail) THEN tail[off - e + 1]
    ELSE 0

\* offsets 0..11 of the "idle" program
IdleProgram == <<169, 128, 141, 0, 32, 173, 2, 32, 234, 76, 8, 128>>

\* what follows the waits of "dma" and of "late", placed at offset e
DmaTail(e) ==
    <<169, 128, 141, 0, 32, 141, 1, 32, 173, 2, 32,
      76, (e + 11) % 256, 128 + ((e + 11) \div 256)>>
LateTail(e) == <<234, 76, e % 256, 128 + (e \div 256)>>
\* offsets 0..7 of the "nmi" program
NmiHead == <<169, 128, 141, 0, 32, 169, 2, 234>>
VramTail(e) ==
    <<169, 1, 141, 6, 32, 169, 35, 141, 6, 32,
      169, 170, 141, 7, 32, 169, 187, 141, 7, 32,
      76, (e + 20) % 256, 128 + ((e + 20) \div 256)>>

\* A 16 KiB PRG bank as the byte at each offset.  Five boot programs, all
\* with the reset vector at $8000 and the NMI vector at $9000, where they
\* hold the handler H: NOP; JMP H.
\*   "idle": LDA #$80; STA $2000; LDA $2002; L: NOP; JMP L
\*   "dma" : LDA #$02; STA $4014 (DmaWaits times); LDA #$80; STA $2000;
\*           STA $2001; LDA $2002; L: JMP L
\*   "late": LDA #$02; STA $4014 (LateWaits times); L: NOP; JMP L
\*   "nmi" : LDA #$80; STA $2000; LDA #$02; NOP; STA $4014 (NmiWaits
\*           times); L: NOP; JMP L
\*   "vram": LDA #$02; STA $4014 (DmaWaits times); LDA #$01; STA $2006;
\*           LDA #$23; STA $2006; LDA #$AA; STA $2007; LDA #$BB; STA $2007;
\*           L: JMP L
PrgByte(cart, off) ==
    IF off = 16378 THEN NmiHandler % 256
    ELSE IF off = 16379 THEN NmiHandler \div 256
    ELSE IF off = 16380 THEN PRG_BANK1_LOCATION % 256
    ELSE IF off = 16381 THEN PRG_BANK1_LOCATION \div 256
    ELSE IF off = 4096 THEN 234
    ELSE IF off = 4097 THEN 76
    ELSE IF off = 4098 THEN 0
    ELSE IF off = 4099 THEN 144
    ELSE IF cart = "idle"
    THEN (IF off < Len(IdleProgram) THEN IdleProgram[off + 1] ELSE 0)
    ELSE IF cart = "nmi"
    THEN (IF off < Len(NmiHead) THEN NmiHead[off + 1]
          ELSE AfterWaits(off, 8 + 3 * NmiWaits, LateTail(8 + 3 * NmiWaits)))
    ELSE IF off = 0 THEN 169
    ELSE IF off = 1 THEN 2
    ELSE IF cart = "dma"
    THEN AfterWaits(off, 2 + 3 * DmaWaits, DmaTail(2 + 3 * DmaWaits))
    ELSE IF cart = "late"
    THEN AfterWaits(off, 2 + 3 * LateWaits, LateTail(2 + 3 * LateWaits))
    ELSE IF cart = "vram"
    THEN AfterWaits(off, 2 + 3 * DmaWaits, VramTail(2 + 3 * DmaWaits))
    ELSE 0

\* The PRG banks of a cartridge: "two" has two banks, the "idle" program and
\* the "vram" program; every other cartridge has one.
PrgBanks(cart) == IF cart = "two" THEN 2 ELSE 1
BankByte(cart, bank, off) ==
    IF cart = "two" THEN PrgByte(IF bank = 0 THEN "idle" ELSE "vram", off)
    ELSE PrgByte(cart, off)

\* main.rs 122-128.  One PRG bank: load_prg_bank1 then load_prg_bank2 copy
\* the same bank to $8000 and to $C000.  More than one: load_prg_bank1 is
\* called with bank 0 and again with bank 1, and load_prg_bank2 is not
\* called.  Every other cell of RamController.memory starts as 0
\* (RamController::new).
LoadedByte(cart, a) ==
    IF cart = "none" \/ a < PRG_BANK1_LOCATION THEN 0
    ELSE IF PrgBanks(cart) > 1
    THEN (IF a < PRG_BANK2_LOCATION THEN BankByte(cart, 1, a - PRG_BANK1_LOCATION)
          ELSE 0)
    ELSE IF a < PRG_BANK2_LOCATION THEN PrgByte(cart, a - PRG_BANK1_LOCATION)
    ELSE PrgByte(cart, a - PRG_BANK2_LOCATION)

----------------------------------------------------------------------------
(* ram_controller.rs and vram_controller.rs.  A machine m is the record of  *)
(* everything the bus can touch:                                            *)
(*   m.registers  CPURegisters                                              *)
(*   m.memory     RamController.memory: the cells that differ from the      *)
(*                image after cartridge load                                *)
(*   m.vram, m.oam  VRAMController.memory / .oam: the cells that are not 0  *)
(*   m.ppu_regs   the PPURegisters cell                                     *)
(*   m.panicked   a Rust panic (index out of bounds, checked overflow)      *)
(*   m.checks     whether the build panics on integer overflow              *)

VramSize == 16384
OamSize == 255

MemAt(m, a) == IF a \in DOMAIN m.memory THEN m.memory[a] ELSE LoadedByte(m.rom, a)

\* cells[a] := v for an array kept as the cells that differ from base
CellSet(cells, a, v, base) ==
    [x \in (DOMAIN cells \ {a}) \cup (IF v = base THEN {} ELSE {a}) |->
        IF x = a THEN v ELSE cells[x]]

CellAt(cells, a) == IF a \in DOMAIN cells THEN cells[a] ELSE 0

is_lower_ram_range(address) == BitAnd(address, 8191) = address
is_io_mirror_range(address) == BitAnd(address, 16383) = address

\* translate_address that passes the RAM mirrors through unfolded
translate_address_unfolded(address) ==
    IF is_lower_ram_range(address) THEN address
    ELSE IF is_io_mirror_range(address) THEN BitAnd(address, 8199)
    ELSE address

translate_address(address) ==
    IF is_lower_ram_range(address) THEN BitAnd(address, 2047)
    ELSE IF is_io_mirror_range(address) THEN BitAnd(address, 8199)
    ELSE address

\* PPURegisters::increment_ppuaddr: u16 addition, which panics on overflow
\* in a build with overflow checks and wraps otherwise
ppuaddr_step(regs) == IF BitAnd(regs.ppuctrl, 4) = 4 THEN 32 ELSE 1

increment_ppuaddr(m) ==
    IF m.ppu_regs.ppuaddr + ppuaddr_step(m.ppu_regs) > 65535 /\ m.checks
    THEN [m EXCEPT !.panicked = TRUE]
    ELSE [m EXCEPT !.ppu_regs.ppuaddr = (@ + ppuaddr_step(m.ppu_regs)) % 65536]

\* VRAMController::read8 / write8 / write_oam: plain indexing
vram_read8(m, address) ==
    IF address >= VramSize THEN [value |-> 0, m |-> [m EXCEPT !.panicked = TRUE]]
    ELSE [value |-> CellAt(m.vram, address), m |-> m]

vram_write8(m, address, value) ==
    IF address >= VramSize THEN [m EXCEPT !.panicked = TRUE]
    ELSE [m EXCEPT !.vram = CellSet(m.vram, address, value, 0)]

write_oam(m, index, value) ==
    IF index >= OamSize THEN [m EXCEPT !.panicked = TRUE]
    ELSE [m EXCEPT !.oam = CellSet(m.oam, index, value, 0)]

\* the byte the DMA copies to OAM cell x
dma_byte(m, oamaddr, page, x) == MemAt(m, page + (x - oamaddr))

\* OAM with the cells of touched overwritten by the page
oam_after_dma(m, oamaddr, page, touched) ==
    [x \in {y \in DOMAIN m.oam \cup touched :
                y \in touched => dma_byte(m, oamaddr, page, y) # 0} |->
        IF x \in touched THEN dma_byte(m, oamaddr, page, x) ELSE m.oam[x]]

\* VRAMController::write_oam_dma(oamaddr, data), data = the slice
\* memory[page .. page + 0xFF]: bytes_to_copy = 0xFF - oamaddr
write_oam_dma(m, oamaddr, page) ==
    [m EXCEPT !.oam = oam_after_dma(m, oamaddr, page,
                                    {oamaddr + i : i \in 0 .. ((255 - oamaddr) - 1)})]

\* Some(v) with the machine the read left behind
some_read(r) == [some |-> TRUE, value |-> r.value, m |-> r.m]

status_read(m, s) == [some |-> TRUE, value |-> s.result, m |-> [m EXCEPT !.ppu_regs = s.regs]]

\* $2007: the VRAM read at the address held before the increment
data_read(m1, ppuaddr) ==
    IF m1.panicked THEN [value |-> 0, m |-> m1] ELSE vram_read8(m1, ppuaddr)

\* read_ppu_registers(&self, address) -> Option<u8>
read_ppu_registers(m, address) ==
    CASE address = 8194 -> status_read(m, status(m.ppu_regs))
      [] address = 8196 -> some_read(vram_read8(m, address))
      [] address = 8199 -> some_read(data_read(increment_ppuaddr(m), m.ppu_regs.ppuaddr))
      [] OTHER -> [some |-> FALSE, value |-> 0, m |-> m]

read8_or(r, fallback) == [value |-> IF r.some THEN r.value ELSE fallback, m |-> r.m]

\* read8(&self, address) -> u8.  unwrap_or evaluates memory[translated]
\* before the port is consulted; it has no effect of its own.
read8(m, address) ==
    read8_or(read_ppu_registers(m, address), MemAt(m, translate_address(address)))

read16_at(m, real_address) ==
    IF real_address + 1 > 65535
    THEN [value |-> 0, m |-> [m EXCEPT !.panicked = TRUE]]
    ELSE [value |-> BitOr(MemAt(m, real_address), MemAt(m, real_address + 1) * 256),
          m |-> m]

\* read16(&self, address) -> u16: memory[real] and memory[real + 1]
read16(m, address) == read16_at(m, translate_address(address))

\* $2004: after write_oam left m1, set_oamaddr(oamaddr + 1) in u8 arithmetic
oam_written(m1, sum) ==
    IF m1.panicked THEN m1
    ELSE IF sum > 255 /\ m1.checks THEN [m1 EXCEPT !.panicked = TRUE]
    ELSE [m1 EXCEPT !.ppu_regs = set_oamaddr(@, sum % 256)]

\* $2007: after write8 left m1, increment_ppuaddr
data_written(m1) == IF m1.panicked THEN m1 ELSE increment_ppuaddr(m1)

\* write_ppu_registers(&mut self, address, value) -> i32 (the cycle penalty)
write_ppu_registers(m, address, value) ==
    CASE address = 8192 ->
            [penalty |-> 0, m |-> [m EXCEPT !.ppu_regs = set_ppuctrl(@, value)]]
      [] address = 8193 ->
            [penalty |-> 0, m |-> [m EXCEPT !.ppu_regs = set_ppumask(@, value)]]
      [] address = 8195 ->
            [penalty |-> 0, m |-> [m EXCEPT !.ppu_regs = set_oamaddr(@, value)]]
      [] address = 8196 ->
            [penalty |-> 0,
             m |-> oam_written(write_oam(m, m.ppu_regs.oamaddr, value),
                               m.ppu_regs.oamaddr + 1)]
      [] address = 8197 ->
            [penalty |-> 0, m |-> [m EXCEPT !.ppu_regs = set_ppuscroll(@, value)]]
      [] address = 8198 ->
            [penalty |-> 0, m |-> [m EXCEPT !.ppu_regs = set_ppuaddr(@, value)]]
      [] address = 8199 ->
            [penalty |-> 0, m |-> data_written(vram_write8(m, m.ppu_regs.ppuaddr, value))]
      [] address = 16404 ->
            [penalty |-> 513, m |-> write_oam_dma(m, m.ppu_regs.oamaddr, value * 256)]
      [] OTHER -> [penalty |-> 0, m |-> m]

write8_at(m, address, value, a) ==
    write_ppu_registers(
        [m EXCEPT !.memory = CellSet(m.memory, a, value, LoadedByte(m.rom, a))],
        address, value)

\* write8(&mut self, address, value) -> i32
write8(m, address, value) == write8_at(m, address, value, translate_address(address))

----------------------------------------------------------------------------
(* cpuregisters.rs, stack.rs, opcodes.rs, cpu.rs                            *)

FlagCarry == 1
FlagZero == 2
FlagInterruptDisable == 4
FlagDecimal == 8
FlagBreakCommand == 16
FlagUnused == 32
FlagOverflow == 64
FlagSign == 128

\* CPURegisters::new (rts_counter, a debugging counter, is left out)
CPURegisters_new ==
    [accumulator |-> 0, x |-> 0, y |-> 0, status |-> 36, pc |-> 0, stack |-> 509]

\* AbsoluteAddress::offset_wrap is called by increment_pc but defined nowhere
\* in the sources; the program counter advances with 16-bit wrap-around.
offset_wrap(address, n) == (address + n) % 65536

\* increment_pc(&mut self) -> the pc before the increment
increment_pc(m) ==
    [value |-> m.registers.pc,
     m |-> [m EXCEPT !.registers.pc = offset_wrap(@, 1)]]

increment_stack(regs) ==
    [regs EXCEPT !.stack = IF regs.stack + 1 > 511 THEN 256 ELSE regs.stack + 1]

decrement_stack(regs) ==
    [regs EXCEPT !.stack = IF regs.stack = 256 THEN 511 ELSE regs.stack - 1]

set_flag(regs, flag) == [regs EXCEPT !.status = BitOr(@, flag)]
clear_flag(regs, flag) == [regs EXCEPT !.status = BitAnd(@, Not8(flag))]
set_flag_if(regs, flag, set) == IF set THEN set_flag(regs, flag) ELSE clear_flag(regs, flag)
flag(regs, f) == BitAnd(regs.status, f) = f

set_accumulator(regs, value) ==
    set_flag_if(set_flag_if([regs EXCEPT !.accumulator = value], FlagZero, value = 0),
                FlagSign, BitAnd(value, 128) = 128)

\* set_x without the flag updates
set_x_plain(regs, value) == [regs EXCEPT !.x = value]
set_x(regs, value) ==
    set_flag_if(set_flag_if([regs EXCEPT !.x = value], FlagZero, value = 0),
                FlagSign, BitAnd(value, 128) = 128)

\* set_stack(value: u16): the stack address in page 1
set_stack(regs, value) == [regs EXCEPT !.stack = BitOr(256, value)]

\* stack::push: write at the stack address, then decrement it
pushed(w) == [w.m EXCEPT !.registers = decrement_stack(@)]
push(m, value) == pushed(write8(m, m.registers.stack, value))

\* stack::pop: increment the stack address, then read there
pop_at(m1) == read8(m1, m1.registers.stack)
pop(m) == pop_at([m EXCEPT !.registers = increment_stack(@)])

\* self.registers.set_pc(address)
set_pc(address) == [address.m EXCEPT !.registers.pc = address.value]

\* CPU::reset without the fresh register file
reset_keep_registers(m) == set_pc(read16(m, RESET_VECTOR))

\* CPU::reset
reset(m) == set_pc(read16([m EXCEPT !.registers = CPURegisters_new], RESET_VECTOR))

\* CPU::trigger_nmi
trigger_nmi(m) ==
    set_pc(read16(push(push(m, BitAnd(m.registers.pc, 255)),
                       BitAnd(m.registers.pc \div 256, 255)),
                  NMI_VECTOR))

\* mem.read8(a) for an address a = [value, m] that an earlier step produced
read8_at(a) == read8(a.m, a.value)

\* mem.read8(regs.increment_pc())
fetch8(m) == read8_at(increment_pc(m))

\* opcodes::addressing_mode::immediate: the operand's address (the operand
\* is also read once for the trace line)
immediate_at(a) == [value |-> a.value, m |-> read8_at(a).m]
mode_immediate(m) == immediate_at(increment_pc(m))

\* opcodes::addressing_mode::absolute: the little-endian operand word
absolute_word(low_value, high) ==
    [value |-> BitOr(low_value, high.value * 256), m |-> high.m]
absolute_high(low) == absolute_word(low.value, fetch8(low.m))
mode_absolute(m) == absolute_high(fetch8(m))

\* an instruction that costs no cycles
nop_implied_free(m) == [cycles |-> 0, m |-> m]
nop_implied(m) == [cycles |-> 2, m |-> m]

\* regs.set_accumulator(value) with the value an operand read v returned
lda_loaded(cycles, v) ==
    [cycles |-> cycles, m |-> [v.m EXCEPT !.registers = set_accumulator(@, v.value)]]

lda_immediate(m) == lda_loaded(2, read8_at(mode_immediate(m)))

lda_absolute(m) == lda_loaded(4, read8_at(mode_absolute(m)))

sta_write(address) == write8(address.m, address.value, address.m.registers.accumulator)
sta_cycles(w) == [cycles |-> w.penalty + 4, m |-> w.m]
sta_absolute(m) == sta_cycles(sta_write(mode_absolute(m)))

jmp_absolute(m) == [cycles |-> 3, m |-> set_pc(mode_absolute(m))]

\* opcodes::adc: result is the u16 sum, new_value its low byte
adc_flags(regs, value, result) ==
    set_flag_if(set_flag_if(regs, FlagCarry, result > 255),
                FlagOverflow,
                BitAnd(BitAnd(Not8(BitXor(regs.accumulator, value)),
                              BitXor(regs.accumulator, result % 256)), 128) = 128)
adc_sum(regs, value, result) == set_accumulator(adc_flags(regs, value, result), result % 256)
\* adc without the carry flag added in
adc_no_carry(regs, value) == adc_sum(regs, value, regs.accumulator + value)

adc(regs, value) ==
    adc_sum(regs, value, regs.accumulator + value + BitAnd(regs.status, FlagCarry))

\* opcodes::sbc: adc(regs, !value)
sbc(regs, value) == adc(regs, Not8(value))

adc_loaded(v) == [cycles |-> 2, m |-> [v.m EXCEPT !.registers = adc(@, v.value)]]
adc_immediate(m) == adc_loaded(read8_at(mode_immediate(m)))

sbc_loaded(v) == [cycles |-> 2, m |-> [v.m EXCEPT !.registers = sbc(@, v.value)]]
sbc_immediate(m) == sbc_loaded(read8_at(mode_immediate(m)))

\* the flag instructions
flag_set(m, f) == [cycles |-> 2, m |-> [m EXCEPT !.registers = set_flag(@, f)]]
flag_cleared(m, f) == [cycles |-> 2, m |-> [m EXCEPT !.registers = clear_flag(@, f)]]
sec_implied(m) == flag_set(m, FlagCarry)
clc_implied(m) == flag_cleared(m, FlagCarry)
sei_implied(m) == flag_set(m, FlagInterruptDisable)
cli_implied(m) == flag_cleared(m, FlagInterruptDisable)
sed_implied(m) == flag_set(m, FlagDecimal)
cld_implied(m) == flag_cleared(m, FlagDecimal)
clv_implied(m) == flag_cleared(m, FlagOverflow)

\* AbsoluteAddress::high and AbsoluteAddress::offset(&self, val), which adds
\* 1 whatever val is
high(address) == address \div 256
offset(address, val) == (address + 1) % 65536

\* `as i8` of an operand byte
to_i8(b) == IF b >= 128 THEN b - 256 ELSE b

\* CPURegisters::offset_pc(value) -> whether the page changed
offset_pc_to(regs, to) ==
    [crossed |-> high(regs.pc) # high(to), regs |-> [regs EXCEPT !.pc = to]]
offset_pc(regs, value) == offset_pc_to(regs, offset(regs.pc, value))

\* opcodes::addressing_mode::relative
relative_of(operand) == [value |-> to_i8(operand.value), m |-> operand.m]
mode_relative(m) == relative_of(fetch8(m))

\* the eight branches: r is what mode::relative returned
branch_taken(r, o) ==
    [cycles |-> IF o.crossed THEN 4 ELSE 3, m |-> [r.m EXCEPT !.registers = o.regs]]
branch_on(r, f, want) ==
    IF flag(r.m.registers, f) = want
    THEN branch_taken(r, offset_pc(r.m.registers, r.value))
    ELSE [cycles |-> 2, m |-> r.m]
bcs_relative(m) == branch_on(mode_relative(m), FlagCarry, TRUE)
bcc_relative(m) == branch_on(mode_relative(m), FlagCarry, FALSE)
beq_relative(m) == branch_on(mode_relative(m), FlagZero, TRUE)
bne_relative(m) == branch_on(mode_relative(m), FlagZero, FALSE)
bmi_relative(m) == branch_on(mode_relative(m), FlagSign, TRUE)
bpl_relative(m) == branch_on(mode_relative(m), FlagSign, FALSE)
bvs_relative(m) == branch_on(mode_relative(m), FlagOverflow, TRUE)
bvc_relative(m) == branch_on(mode_relative(m), FlagOverflow, FALSE)

\* opcodes::addressing_mode::indirect: the pointer is the operand word
indirect_high(address) ==
    IF address % 256 = 255 THEN BitAnd(address, 65280) ELSE address + 1
indirect_word(low, hi) == [value |-> BitOr(low.value, hi.value * 256), m |-> hi.m]
indirect_low(low, address_high) == indirect_word(low, read8(low.m, address_high))
indirect_at(pointer) ==
    indirect_low(read8(pointer.m, pointer.value), indirect_high(pointer.value))
mode_indirect(m) == indirect_at(mode_absolute(m))

jmp_indirect(m) == [cycles |-> 5, m |-> set_pc(mode_indirect(m))]

\* RamController::read8x(&self, address) -> u8
read8x(m, address) == 0

\* AbsoluteAddress::from_u8(low, high)
from_u8(low, hi) == BitOr(hi * 256, low)

\* CPU::resolve_address for AddressingMode::Indirect(address)
resolve_address_high(address) ==
    IF address % 256 = 255 THEN from_u8(high(address), 0) ELSE offset(address, 1)
resolve_address_indirect(m, address) ==
    from_u8(read8x(m, address), read8x(m, resolve_address_high(address)))

\* opcodes::jsr_absolute: return_address = regs.pc() - 1 in u16 arithmetic
jsr_pushed(routine_address, return_address) ==
    [cycles |-> 6,
     m |-> [push(push(routine_address.m, BitAnd(return_address \div 256, 255)),
                 BitAnd(return_address, 255))
              EXCEPT !.registers.pc = routine_address.value]]
jsr_return(routine_address, pc) ==
    IF pc = 0 /\ routine_address.m.checks
    THEN [cycles |-> 0, m |-> [routine_address.m EXCEPT !.panicked = TRUE]]
    ELSE jsr_pushed(routine_address, (pc + 65535) % 65536)
jsr_at(routine_address) == jsr_return(routine_address, routine_address.m.registers.pc)
\* jsr_absolute pushing the low byte of the return address first
jsr_low_first_at(routine_address, return_address) ==
    [cycles |-> 6,
     m |-> [push(push(routine_address.m, BitAnd(return_address, 255)),
                 BitAnd(return_address \div 256, 255))
              EXCEPT !.registers.pc = routine_address.value]]
jsr_low_first(routine_address) ==
    jsr_low_first_at(routine_address, (routine_address.m.registers.pc + 65535) % 65536)
jsr_absolute_low_first(m) == jsr_low_first(mode_absolute(m))

jsr_absolute(m) == jsr_at(mode_absolute(m))

\* opcodes::rts_implied: regs.set_pc(address + 1) in u16 arithmetic
rts_address(m, address) ==
    IF address = 65535 /\ m.checks
    THEN [cycles |-> 0, m |-> [m EXCEPT !.panicked = TRUE]]
    ELSE [cycles |-> 6, m |-> [m EXCEPT !.registers.pc = (address + 1) % 65536]]
rts_high(low, hi) == rts_address(hi.m, BitOr(low.value, hi.value * 256))
rts_low(low) == rts_high(low, pop(low.m))
rts_implied(m) == rts_low(pop(m))

\* opcodes::brk_implied
brk_vector(m) == [cycles |-> 7, m |-> set_pc(read16(m, 65534))]
brk_status(m) ==
    brk_vector([push(m, BitOr(BitOr(m.registers.status, FlagUnused), FlagBreakCommand))
                  EXCEPT !.registers = set_flag(@, FlagBreakCommand)])
brk_implied(m) ==
    brk_status(push(push(m, BitAnd(m.registers.pc, 255)),
                    BitAnd(m.registers.pc \div 256, 255)))

\* opcodes::rti_implied
rti_pc(low, hi) ==
    [cycles |-> 6, m |-> [hi.m EXCEPT !.registers.pc = BitOr(low.value, hi.value * 256)]]
rti_low(low) == rti_pc(low, pop(low.m))
rti_status(s) == rti_low(pop([s.m EXCEPT !.registers.status = BitOr(s.value, FlagUnused)]))
rti_implied(m) == rti_status(pop(m))

\* opcodes::php_implied, plp_implied (plp_implied_raw leaves bit 5 as popped),
\* pha_implied, pla_implied
\* php pushing the status register as it is
php_implied_plain(m) == [cycles |-> 3, m |-> push(m, m.registers.status)]
php_implied(m) ==
    [cycles |-> 3,
     m |-> push(m, BitOr(BitOr(m.registers.status, FlagUnused), FlagBreakCommand))]
plp_popped_raw(s) ==
    [cycles |-> 4,
     m |-> [s.m EXCEPT !.registers.status = BitAnd(s.value, Not8(FlagBreakCommand))]]
plp_popped(s) ==
    [cycles |-> 4,
     m |-> [s.m EXCEPT !.registers.status =
                BitAnd(BitOr(s.value, FlagUnused), Not8(FlagBreakCommand))]]
plp_implied_raw(m) == plp_popped_raw(pop(m))
plp_implied(m) == plp_popped(pop(m))
pha_implied(m) == [cycles |-> 3, m |-> push(m, m.registers.accumulator)]
pla_popped(v) == [cycles |-> 4, m |-> [v.m EXCEPT !.registers = set_accumulator(@, v.value)]]
pla_implied(m) == pla_popped(pop(m))

\* opcodes::ldx_immediate, txs_implied
ldx_loaded(v) == [cycles |-> 2, m |-> [v.m EXCEPT !.registers = set_x(@, v.value)]]
ldx_immediate(m) == ldx_loaded(read8_at(mode_immediate(m)))
txs_implied(m) == [cycles |-> 2, m |-> [m EXCEPT !.registers = set_stack(@, @.x)]]

\* opcodes::addressing_mode::zero_page: the operand byte is the address
mode_zero_page(m) == fetch8(m)

\* u8 << 1 and u8 >> 1
shl8(v) == (v * 2) % 256
shr8(v) == v \div 2

\* the flags asl and lsr set, and those rol and ror set, on a memory operand
shift_flags(regs, carry, new_value) ==
    set_flag_if(set_flag_if(set_flag_if(regs, FlagCarry, carry), FlagZero, new_value = 0),
                FlagSign, BitAnd(new_value, 128) = 128)
rotate_flags(regs, carry, new_value) ==
    set_flag_if(set_flag_if(regs, FlagCarry, carry), FlagSign, BitAnd(new_value, 128) = 128)

rol_value(regs, old_value) ==
    IF flag(regs, FlagCarry) THEN BitOr(shl8(old_value), 1) ELSE shl8(old_value)
ror_value(regs, old_value) ==
    IF flag(regs, FlagCarry) THEN BitOr(shr8(old_value), 128) ELSE shr8(old_value)

\* opcodes::asl, lsr, rol, ror on the byte at address: old is what
\* mem.read8(address) returned; the result is what mem.write8 returns
asl_read(old, address) ==
    write8([old.m EXCEPT !.registers =
                shift_flags(@, BitAnd(old.value, 128) = 128, shl8(old.value))],
           address, shl8(old.value))
asl(m, address) == asl_read(read8(m, address), address)

lsr_read(old, address) ==
    write8([old.m EXCEPT !.registers =
                shift_flags(@, BitAnd(old.value, 1) = 1, shr8(old.value))],
           address, shr8(old.value))
lsr(m, address) == lsr_read(read8(m, address), address)

rol_read(old, address) ==
    write8([old.m EXCEPT !.registers =
                rotate_flags(@, BitAnd(old.value, 128) = 128,
                             rol_value(old.m.registers, old.value))],
           address, rol_value(old.m.registers, old.value))
rol(m, address) == rol_read(read8(m, address), address)

ror_read(old, address) ==
    write8([old.m EXCEPT !.registers =
                rotate_flags(@, BitAnd(old.value, 1) = 1,
                             ror_value(old.m.registers, old.value))],
           address, ror_value(old.m.registers, old.value))
ror(m, address) == ror_read(read8(m, address), address)

\* the cycles of a memory form: what the operation returned + n
plus(w, n) == [cycles |-> w.penalty + n, m |-> w.m]

asl_zero_page_at(address) == plus(asl(address.m, address.value), 5)
asl_zero_page(m) == asl_zero_page_at(mode_zero_page(m))
asl_absolute_at(address) == plus(asl(address.m, address.value), 6)
asl_absolute(m) == asl_absolute_at(mode_absolute(m))
lsr_zero_page_at(address) == plus(lsr(address.m, address.value), 5)
lsr_zero_page(m) == lsr_zero_page_at(mode_zero_page(m))
lsr_absolute_at(address) == plus(lsr(address.m, address.value), 6)
lsr_absolute(m) == lsr_absolute_at(mode_absolute(m))
rol_zero_page_at(address) == plus(rol(address.m, address.value), 5)
rol_zero_page(m) == rol_zero_page_at(mode_zero_page(m))
rol_absolute_at(address) == plus(rol(address.m, address.value), 6)
rol_absolute(m) == rol_absolute_at(mode_absolute(m))
ror_zero_page_at(address) == plus(ror(address.m, address.value), 5)
ror_zero_page(m) == ror_zero_page_at(mode_zero_page(m))
ror_absolute_at(address) == plus(ror(address.m, address.value), 6)
ror_absolute(m) == ror_absolute_at(mode_absolute(m))

\* the accumulator forms: the carry from the old accumulator, then
\* set_accumulator(result)
accumulator_shift(m, carry, result) ==
    [cycles |-> 2,
     m |-> [m EXCEPT !.registers = set_accumulator(set_flag_if(@, FlagCarry, carry), result)]]
asl_accumulator(m) ==
    accumulator_shift(m, BitAnd(m.registers.accumulator, 128) = 128,
                      shl8(m.registers.accumulator))
lsr_accumulator(m) ==
    accumulator_shift(m, BitAnd(m.registers.accumulator, 1) = 1,
                      shr8(m.registers.accumulator))
rol_accumulator(m) ==
    accumulator_shift(m, BitAnd(m.registers.accumulator, 128) = 128,
                      rol_value(m.registers, m.registers.accumulator))
ror_accumulator(m) ==
    accumulator_shift(m, BitAnd(m.registers.accumulator, 1) = 1,
                      ror_value(m.registers, m.registers.accumulator))

\* The opcodes of CPU::process_instruction that the model executes.
ModelledOpcodes ==
    {0, 6, 8, 10, 14, 16, 24, 32, 38, 40, 42, 46, 48, 56, 64, 70, 72, 74, 76, 78,
     80, 88, 96, 102, 104, 105, 106, 108, 110, 112,
     120, 141, 144, 154, 162, 169, 173, 176, 184, 208, 216, 233, 234, 240, 248}

\* the match on the opcode byte
execute(opcode) ==
    CASE opcode.value = 0   -> brk_implied(opcode.m)
      [] opcode.value = 6   -> asl_zero_page(opcode.m)
      [] opcode.value = 8   -> php_implied(opcode.m)
      [] opcode.value = 10  -> asl_accumulator(opcode.m)
      [] opcode.value = 14  -> asl_absolute(opcode.m)
      [] opcode.value = 38  -> rol_zero_page(opcode.m)
      [] opcode.value = 42  -> rol_accumulator(opcode.m)
      [] opcode.value = 46  -> rol_absolute(opcode.m)
      [] opcode.value = 70  -> lsr_zero_page(opcode.m)
      [] opcode.value = 74  -> lsr_accumulator(opcode.m)
      [] opcode.value = 78  -> lsr_absolute(opcode.m)
      [] opcode.value = 102 -> ror_zero_page(opcode.m)
      [] opcode.value = 106 -> ror_accumulator(opcode.m)
      [] opcode.value = 110 -> ror_absolute(opcode.m)
      [] opcode.value = 16  -> bpl_relative(opcode.m)
      [] opcode.value = 24  -> clc_implied(opcode.m)
      [] opcode.value = 32  -> jsr_absolute(opcode.m)
      [] opcode.value = 40  -> plp_implied(opcode.m)
      [] opcode.value = 48  -> bmi_relative(opcode.m)
      [] opcode.value = 56  -> sec_implied(opcode.m)
      [] opcode.value = 64  -> rti_implied(opcode.m)
      [] opcode.value = 72  -> pha_implied(opcode.m)
      [] opcode.value = 76  -> jmp_absolute(opcode.m)
      [] opcode.value = 80  -> bvc_relative(opcode.m)
      [] opcode.value = 88  -> cli_implied(opcode.m)
      [] opcode.value = 96  -> rts_implied(opcode.m)
      [] opcode.value = 104 -> pla_implied(opcode.m)
      [] opcode.value = 105 -> adc_immediate(opcode.m)
      [] opcode.value = 108 -> jmp_indirect(opcode.m)
      [] opcode.value = 112 -> bvs_relative(opcode.m)
      [] opcode.value = 120 -> sei_implied(opcode.m)
      [] opcode.value = 141 -> sta_absolute(opcode.m)
      [] opcode.value = 144 -> bcc_relative(opcode.m)
      [] opcode.value = 154 -> txs_implied(opcode.m)
      [] opcode.value = 162 -> ldx_immediate(opcode.m)
      [] opcode.value = 169 -> lda_immediate(opcode.m)
      [] opcode.value = 173 -> lda_absolute(opcode.m)
      [] opcode.value = 176 -> bcs_relative(opcode.m)
      [] opcode.value = 184 -> clv_implied(opcode.m)
      [] opcode.value = 208 -> bne_relative(opcode.m)
      [] opcode.value = 216 -> cld_implied(opcode.m)
      [] opcode.value = 233 -> sbc_immediate(opcode.m)
      [] opcode.value = 234 -> nop_implied(opcode.m)
      [] opcode.value = 240 -> beq_relative(opcode.m)
      [] opcode.value = 248 -> sed_implied(opcode.m)
      [] OTHER -> [cycles |-> 0, m |-> [opcode.m EXCEPT !.panicked = TRUE]]

\* CPU::process_instruction(&mut self) -> i32
process_instruction(m) == execute(fetch8(m))

----------------------------------------------------------------------------
(* The machine record of the bus operators, read from and written back to   *)
(* the variables.                                                            *)

Machine ==
    [registers |-> registers, memory |-> memory, vram |-> vram, oam |-> oam,
     ppu_regs |-> ppu_regs, panicked |-> panicked, checks |-> checks, rom |-> rom]

SetMachine(m) ==
    /\ registers' = m.registers
    /\ memory' = m.memory
    /\ vram' = m.vram
    /\ oam' = m.oam
    /\ ppu_regs' = m.ppu_regs
    /\ panicked' = m.panicked
    /\ UNCHANGED <<checks, rom>>

NoLast == [op |-> "none"]
\* seq.valid: the register file is outside the power-up state and $2002 was
\* read since it left it; seq.writes: the $2005/$2006 writes since that read
\* (at most two are kept); seq.before: how many such writes preceded the read.
Unknown == [valid |-> FALSE, before |-> 0, writes |-> <<>>]

\* RamController::new, VRAMController::new, PPURegisters::new, CPU::new for
\* a cartridge cart, before CPU::reset
PowerOn(cart, chk) ==
    [registers |-> CPURegisters_new, memory |-> <<>>, vram |-> <<>>, oam |-> <<>>,
     ppu_regs |-> PPURegisters_new, panicked |-> FALSE, checks |-> chk, rom |-> cart]

InitMachine(m) ==
    /\ registers = m.registers
    /\ memory = m.memory
    /\ vram = m.vram
    /\ oam = m.oam
    /\ ppu_regs = m.ppu_regs
    /\ panicked = m.panicked
    /\ checks = m.checks
    /\ rom = m.rom

InitObservations ==
    /\ dots_handed = 0
    /\ vblank_sets = 0
    /\ nmi_count = 0
    /\ iteration = 0
    /\ seq = Unknown
    /\ last = NoLast

----------------------------------------------------------------------------
(* main.rs: the orchestrator loop, from the state main leaves after         *)
(* cpu.reset() with total_cycles = 7.                                       *)

Carts == {"idle", "dma", "late", "vram"}
MaxIterations == 400

Init ==
    /\ \E cart \in Carts : InitMachine(reset(PowerOn(cart, TRUE)))
    /\ ppu = PPU_new
    /\ total_cycles = 7
    /\ running = TRUE
    /\ InitObservations

\* The store the instruction at pc performs, as <<address, value>>, read off
\* the program bytes (STA absolute is the only store of the boot programs).
StoreOf(m) ==
    IF MemAt(m, m.registers.pc) = 141
    THEN <<BitOr(MemAt(m, offset_wrap(m.registers.pc, 1)),
                 MemAt(m, offset_wrap(m.registers.pc, 2)) * 256),
           m.registers.accumulator>>
    ELSE <<>>

\* the machine after the PPU step: ppu_regs as the PPU left them, and
\* if ppu_result == PPUResult::VBlankNMI { cpu.trigger_nmi() }
AfterPpu(m, pr) ==
    IF pr.nmi THEN trigger_nmi([m EXCEPT !.ppu_regs = pr.regs])
    ELSE [m EXCEPT !.ppu_regs = pr.regs]

\* lines 183-190: the PPU step pr that followed the instruction
IterationPpu(cycles, m, pr) ==
    /\ SetMachine(AfterPpu(m, pr))
    /\ ppu' = pr.p
    /\ total_cycles' = total_cycles + cycles
    /\ dots_handed' = dots_handed + cycles * 3
    /\ vblank_sets' = vblank_sets + pr.sets
    /\ nmi_count' = nmi_count + (IF pr.nmi THEN 1 ELSE 0)
    /\ last' = [op |-> "iteration", cycles |-> cycles, nmi |-> pr.nmi,
                store |-> StoreOf(Machine)]

\* lines 177-185: r is what process_instruction returned
IterationCpu(r) == IterationPpu(r.cycles, r.m, process(ppu, r.m.ppu_regs, r.cycles * 3))

\* One pass of the 'running loop: lines 154-251
Iteration ==
    /\ running /\ ~panicked
    /\ iteration < MaxIterations
    /\ MemAt(Machine, registers.pc) \in ModelledOpcodes
    /\ IterationCpu(process_instruction(Machine))
    /\ running' = (registers.pc # 50798)
    /\ iteration' = iteration + 1
    /\ UNCHANGED seq

\* Event::Quit or Escape polled at the top of the loop: break 'running
Quit ==
    /\ running
    /\ running' = FALSE
    /\ UNCHANGED <<ppu, ppu_regs, registers, memory, vram, oam, panicked, checks,
                   total_cycles, rom, dots_handed, vblank_sets, nmi_count,
                   iteration, seq, last>>

Next == Iteration \/ Quit

Spec == Init /\ [][Next]_vars

----------------------------------------------------------------------------
(* The PPU driven through PPU::process alone, from PPU::new and             *)
(* PPURegisters::new.  The first call may hand over a long catch-up that    *)
(* ends at the start of scanline 240 or 261 of the first frame or scanline  *)
(* 240 of the second; every other call hands over between 0 and MaxStep     *)
(* dots, for PPUWindow dots after the place the first call reached.         *)

MaxStep == 9
PPUWindow == 700
PPUSteps == 0 .. MaxStep
PPUJumps == {240 * ScanlineDots, PreRenderScanline * ScanlineDots,
             FrameDots + 240 * ScanlineDots}

InitPPU ==
    /\ InitMachine(PowerOn("none", TRUE))
    /\ ppu = PPU_new
    /\ total_cycles = 0
    /\ running = FALSE
    /\ InitObservations

PPUCalled(n, r) ==
    /\ ppu' = r.p
    /\ ppu_regs' = r.regs
    /\ vblank_sets' = vblank_sets + r.sets
    /\ last' = [op |-> "process", nmi |-> r.nmi]
    /\ dots_handed' = dots_handed + n
    /\ iteration' = iteration
    /\ UNCHANGED <<registers, memory, vram, oam, panicked, checks, total_cycles,
                   running, rom, nmi_count, seq>>

PPUCall(n) == PPUCalled(n, process(ppu, ppu_regs, n))

PPUProcess(n) ==
    /\ \E j \in PPUJumps \cup {0} : j <= dots_handed /\ dots_handed + n <= j + PPUWindow
    /\ PPUCall(n)

PPUCatchUp(n) ==
    /\ dots_handed = 0
    /\ last = NoLast
    /\ PPUCall(n)

NextPPU ==
    \/ \E n \in PPUSteps : PPUProcess(n)
    \/ \E n \in PPUJumps : PPUCatchUp(n)

SpecPPU == InitPPU /\ [][NextPPU]_vars

PositionOf(p) == p.scanline * ScanlineDots + p.scanline_cycle

----------------------------------------------------------------------------
(* The register file driven through its public interface: the CPU bus       *)
(* (read8 / write8 on the register ports), the PPU (set_vblank) and         *)
(* set_powerup_state, from RamController::new and PPURegisters::new.        *)

MaxBusOps == 5
PORT_PPUCTRL == 8192
PORT_PPUMASK == 8193
PORT_PPUSTATUS == 8194
PORT_OAMADDR == 8195
PORT_PPUSCROLL == 8197
PORT_PPUADDR == 8198

\* The bytes the bus writes: both have bits in and above the low five.
WriteVals(port) == {129, 94}
WritePorts == {PORT_PPUCTRL, PORT_PPUMASK, PORT_OAMADDR, PORT_PPUSCROLL, PORT_PPUADDR}

InitRegs ==
    /\ InitMachine(PowerOn("none", TRUE))
    /\ ppu = PPU_new
    /\ total_cycles = 0
    /\ running = FALSE
    /\ InitObservations

RegsIdle == UNCHANGED <<ppu, total_cycles, running, dots_handed, vblank_sets, nmi_count>>

BusWritten(port, v, w) ==
    /\ SetMachine(w.m)
    /\ last' = [op |-> "write8", address |-> port, value |-> v, penalty |-> w.penalty]

BusWrite(port, v) ==
    /\ iteration < MaxBusOps
    /\ BusWritten(port, v, write8(Machine, port, v))
    /\ seq' = IF port \notin {PORT_PPUSCROLL, PORT_PPUADDR} \/ ppu_regs.in_powerup_state
              THEN seq
              ELSE IF seq.valid /\ Len(seq.writes) < 2
              THEN [seq EXCEPT !.writes = Append(@, <<port, v>>)]
              ELSE IF seq.valid
              THEN [valid |-> FALSE, before |-> 3, writes |-> <<>>]
              ELSE [seq EXCEPT !.before = Min(@ + 1, 3)]
    /\ iteration' = iteration + 1
    /\ RegsIdle

BusRead(r) ==
    /\ SetMachine(r.m)
    /\ last' = [op |-> "read8", address |-> PORT_PPUSTATUS, value |-> r.value]

BusReadStatus ==
    /\ iteration < MaxBusOps
    /\ BusRead(read8(Machine, PORT_PPUSTATUS))
    /\ seq' = IF ppu_regs.in_powerup_state THEN Unknown
              ELSE [valid |-> TRUE,
                    before |-> IF seq.valid THEN Len(seq.writes) ELSE seq.before,
                    writes |-> <<>>]
    /\ iteration' = iteration + 1
    /\ RegsIdle

\* what PPU::process_internal does to the register file at the VBlank edge
PpuSetVblank ==
    /\ iteration < MaxBusOps
    /\ ppu_regs' = set_vblank(ppu_regs)
    /\ last' = [op |-> "set_vblank"]
    /\ iteration' = iteration + 1
    /\ UNCHANGED <<registers, memory, vram, oam, panicked, checks, rom, seq>>
    /\ RegsIdle

SetPowerupState(state) ==
    /\ iteration < MaxBusOps
    /\ ppu_regs' = set_powerup_state(ppu_regs, state)
    /\ last' = [op |-> "set_powerup_state"]
    /\ seq' = Unknown
    /\ iteration' = iteration + 1
    /\ UNCHANGED <<registers, memory, vram, oam, panicked, checks, rom>>
    /\ RegsIdle

NextRegs ==
    \/ \E port \in WritePorts : \E v \in WriteVals(port) : BusWrite(port, v)
    \/ BusReadStatus
    \/ PpuSetVblank
    \/ \E state \in BOOLEAN : SetPowerupState(state)

SpecRegs == InitRegs /\ [][NextRegs]_vars

----------------------------------------------------------------------------
(* The CPU's interrupt entry applied to register states a program can       *)
(* produce, on the "idle" cartridge (NMI vector $9000).                     *)

CpuPcs == {32768, 33023, 49151, 65535}
CpuStacks == {256, 257, 258, 509, 511}
CpuStatuses == {36, 37, 164, 103}

InitCPU ==
    /\ \E pc \in CpuPcs, sp \in CpuStacks, p \in CpuStatuses, chk \in BOOLEAN :
          InitMachine([PowerOn("idle", chk) EXCEPT
                          !.registers.pc = pc,
                          !.registers.stack = sp,
                          !.registers.status = p])
    /\ ppu = PPU_new
    /\ total_cycles = 0
    /\ running = FALSE
    /\ InitObservations

CpuTriggerNmi ==
    /\ iteration = 0
    /\ ~panicked
    /\ SetMachine(trigger_nmi(Machine))
    /\ last' = [op |-> "trigger_nmi", before |-> registers]
    /\ nmi_count' = nmi_count + 1
    /\ iteration' = iteration + 1
    /\ UNCHANGED <<ppu, total_cycles, running, dots_handed, vblank_sets, seq>>

NextCPU == CpuTriggerNmi

SpecCPU == InitCPU /\ [][NextCPU]_vars

----------------------------------------------------------------------------
(* The 2 KiB of work RAM and its three mirrors, and one ROM cell, driven    *)
(* through read8 / write8 from the state RamController::new and the         *)
(* cartridge load leave.                                                    *)

MaxRamOps == 3
RamAddrs == {5, 2047, 2048, 2053, 4101, 8191, 32768}
RamVals == {0, 200}

InitRam ==
    /\ InitMachine(PowerOn("idle", TRUE))
    /\ ppu = PPU_new
    /\ total_cycles = 0
    /\ running = FALSE
    /\ InitObservations

BusLoaded(a, r) ==
    /\ SetMachine(r.m)
    /\ last' = [op |-> "read8", address |-> a, value |-> r.value]

RamStore(a, v) ==
    /\ iteration < MaxRamOps
    /\ BusWritten(a, v, write8(Machine, a, v))
    /\ iteration' = iteration + 1
    /\ UNCHANGED seq
    /\ RegsIdle

RamLoad(a) ==
    /\ iteration < MaxRamOps
    /\ BusLoaded(a, read8(Machine, a))
    /\ iteration' = iteration + 1
    /\ UNCHANGED seq
    /\ RegsIdle

NextRam ==
    \/ \E a \in RamAddrs : \E v \in RamVals : RamStore(a, v)
    \/ \E a \in RamAddrs : RamLoad(a)

SpecRam == InitRam /\ [][NextRam]_vars

----------------------------------------------------------------------------
(* The CPU bus driven through read8 / read16 / write8 at the PPU ports, a   *)
(* port mirror, the OAM DMA port, a RAM cell and a ROM cell, and through    *)
(* set_powerup_state, on the "idle" cartridge, in a build with and in a     *)
(* build without overflow checks.  A panic ends the run.                    *)

MaxBusSteps == 3
PORT_OAMDATA == 8196
PORT_PPUDATA == 8199
PORT_OAMDMA == 16404
BusVals == {2, 128, 255}
BusStoreAddrs ==
    {767, 2048, PORT_PPUCTRL, PORT_OAMADDR, PORT_OAMDATA, PORT_PPUADDR, PORT_PPUDATA,
     PORT_OAMDATA + 8, PORT_OAMDMA, PRG_BANK1_LOCATION}
BusLoadAddrs ==
    {767, PORT_PPUCTRL, PORT_PPUSTATUS, PORT_OAMDATA, PORT_PPUDATA, PORT_OAMDATA + 8,
     PORT_OAMDMA, PRG_BANK1_LOCATION}
BusWordAddrs == {766, 2047, RESET_VECTOR, 65535}

InitBus ==
    /\ \E chk \in BOOLEAN : InitMachine(PowerOn("idle", chk))
    /\ ppu = PPU_new
    /\ total_cycles = 0
    /\ running = FALSE
    /\ InitObservations

BusStep ==
    /\ ~panicked
    /\ iteration < MaxBusSteps
    /\ iteration' = iteration + 1
    /\ UNCHANGED seq
    /\ RegsIdle

BusStore(a, v) == BusStep /\ BusWritten(a, v, write8(Machine, a, v))

BusLoad(a) == BusStep /\ BusLoaded(a, read8(Machine, a))

BusWordLoaded(a, r) ==
    /\ SetMachine(r.m)
    /\ last' = [op |-> "read16", address |-> a, value |-> r.value]

BusLoad16(a) == BusStep /\ BusWordLoaded(a, read16(Machine, a))

BusPowerup(state) ==
    /\ BusStep
    /\ ppu_regs' = set_powerup_state(ppu_regs, state)
    /\ last' = [op |-> "set_powerup_state"]
    /\ UNCHANGED <<registers, memory, vram, oam, panicked, checks, rom>>

NextBus ==
    \/ \E a \in BusStoreAddrs : \E v \in BusVals : BusStore(a, v)
    \/ \E a \in BusLoadAddrs : BusLoad(a)
    \/ \E a \in BusWordAddrs : BusLoad16(a)
    \/ \E state \in BOOLEAN : BusPowerup(state)

SpecBus == InitBus /\ [][NextBus]_vars

----------------------------------------------------------------------------
(* The PRG area as read8 returns it after startup (cartridge load and       *)
(* cpu.reset()), for the one-bank cartridges and the two-bank cartridge.    *)

LoadCarts == Carts \cup {"two"}
LoadOffsets == {0, 1, 2, 3, 4, 5, 8, 9, 338, 339, 4096, 4097, 4099, 16378, 16380, 16381}
LoadProbe ==
    {PRG_BANK1_LOCATION + i : i \in LoadOffsets}
        \cup {PRG_BANK2_LOCATION + i : i \in LoadOffsets}

InitLoad ==
    /\ \E cart \in LoadCarts : InitMachine(reset(PowerOn(cart, TRUE)))
    /\ ppu = PPU_new
    /\ total_cycles = 7
    /\ running = FALSE
    /\ InitObservations

LoadRead(a) ==
    /\ BusLoaded(a, read8(Machine, a))
    /\ UNCHANGED <<iteration, seq>>
    /\ RegsIdle

NextLoad == \E a \in LoadProbe : LoadRead(a)

SpecLoad == InitLoad /\ [][NextLoad]_vars

----------------------------------------------------------------------------
(* The CPU executing instructions on the "idle" cartridge, reset and NMI    *)
(* entry, from register states and memory contents a program can produce:   *)
(* an instruction planted at an address, with the operands, the stack bytes *)
(* and the vectors it uses.  Builds with and without overflow checks.       *)

MaxInstrSteps == 3

\* the bytes placed from address at on (wrapping at $FFFF)
Plant(at, bytes) ==
    [a \in {(at + i - 1) % 65536 : i \in 1 .. Len(bytes)} |->
        bytes[((a - at + 65536) % 65536) + 1]]

\* the cells of f and, where f has none, those of g
Merge(f, g) ==
    [a \in DOMAIN f \cup DOMAIN g |-> IF a \in DOMAIN f THEN f[a] ELSE g[a]]

\* the stack address k places above a (wrapping within page 1)
StackAbove(a, k) == 256 + ((a - 256 + k) % 256)

\* the bytes the next pops return, b1 first
Stacked(sp, bytes) ==
    [a \in {StackAbove(sp, i) : i \in 1 .. Len(bytes)} |->
        bytes[((a - sp + 256) % 256)]]

\* a scenario: the registers and the memory cells that differ from zero RAM
\* and the cartridge
Scenario(regs, cells) == [regs |-> regs, cells |-> cells]
At(pc, a, p, sp) ==
    [CPURegisters_new EXCEPT !.pc = pc, !.accumulator = a, !.status = p, !.stack = sp]

ArithVals == {0, 1, 80, 127, 128, 144, 208, 255}
ArithStatuses == {36, 37, 44, 45}
ArithScenarios ==
    {Scenario(At(512, a, p, 509), Plant(512, <<op, v>>)) :
        op \in {105, 233}, a \in ArithVals, v \in ArithVals, p \in ArithStatuses}

BranchOpcodes == {16, 48, 80, 112, 144, 176, 208, 240}
BranchOffsets == {0, 5, 127, 128, 251, 255}
BranchPlaces == {512, 752, 33021, 65534}
BranchScenarios ==
    {Scenario(At(at, 0, p, 509), Plant(at, <<op, d>>)) :
        op \in BranchOpcodes, d \in BranchOffsets, at \in BranchPlaces, p \in {36, 231}}

\* JMP (pointer) with $34 at the pointer, $12 after it and $56 at the start
\* of the pointer's page
JumpPointers == {768, 1023, 1279}
JumpScenarios ==
    {Scenario(At(512, 0, 36, 509),
              Merge(Plant(512, <<108, ptr % 256, ptr \div 256>>),
                    Merge(Plant(ptr, <<52, 18>>),
                          IF ptr % 256 = 255 THEN Plant(ptr - 255, <<86>>) ELSE <<>>))) :
        ptr \in JumpPointers}

\* JSR $0300 at several places, with RTS at $0300
CallPlaces == {512, 33021, 65532, 65533}
StackPlaces == {256, 257, 509, 511}
CallScenarios ==
    {Scenario([At(at, a, IF a = 0 THEN 36 ELSE 231, sp) EXCEPT !.x = a \div 2, !.y = a],
              Merge(Plant(at, <<32, 0, 3>>), Plant(768, <<96>>))) :
        at \in CallPlaces, sp \in StackPlaces, a \in {0, 129}}

\* RTS, RTI and PLP with the bytes they pop
ReturnWords == {<<255, 255>>, <<254, 255>>, <<255, 127>>, <<52, 2>>}
ReturnScenarios ==
    {Scenario(At(512, 0, 36, sp), Merge(Plant(512, <<96>>), Stacked(sp, w))) :
        sp \in {509, 510, 511}, w \in ReturnWords}
PoppedStatuses == {0, 16, 36, 48, 207, 255}
RtiScenarios ==
    {Scenario(At(512, 7, p, sp), Merge(Plant(512, <<64>>), Stacked(sp, <<b1, 52, 2>>))) :
        sp \in {508, 510, 511}, b1 \in PoppedStatuses, p \in {36, 231}}
PlpScenarios ==
    {Scenario(At(512, 7, 36, sp), Merge(Plant(512, <<40, 8>>), Stacked(sp, <<b1>>))) :
        sp \in {508, 511}, b1 \in PoppedStatuses}

\* PHP followed by PLP
PhpStatuses == {32, 36, 48, 52, 239, 251, 255}
PhpScenarios ==
    {Scenario(At(512, 7, p, sp), Plant(512, <<8, 40>>)) :
        p \in PhpStatuses, sp \in StackPlaces}

\* LDX #v; TXS; PHP in the registers that reset leaves
StackSetupScenarios ==
    {Scenario([CPURegisters_new EXCEPT !.pc = 512], Plant(512, <<162, v, 154, 8>>)) :
        v \in {0, 127, 255}}

\* ASL, ROL, LSR and ROR on A, on the zero-page byte $10 and on the byte
\* at $0300
ShiftOpcodes == {6, 10, 14, 38, 42, 46, 70, 74, 78, 102, 106, 110}
ShiftVals == {0, 1, 64, 128, 129, 255}
ShiftStatuses == {36, 37, 38, 167}
ShiftOperands(op) == IF op % 32 = 6 THEN <<16>> ELSE IF op % 32 = 14 THEN <<0, 3>> ELSE <<>>
ShiftScenarios ==
    {Scenario(At(512, IF op % 32 = 10 THEN v ELSE 85, p, 509),
              Merge(Plant(512, <<op>> \o ShiftOperands(op)),
                    IF op % 32 = 6 THEN Plant(16, <<v>>)
                    ELSE IF op % 32 = 14 THEN Plant(768, <<v>>) ELSE <<>>)) :
        op \in ShiftOpcodes, v \in ShiftVals, p \in ShiftStatuses}

\* BRK with the IRQ vector $9000 and RTI there
BrkScenarios ==
    {Scenario(At(at, 0, p, sp),
              Merge(Plant(at, <<0>>), Merge(Plant(65534, <<0, 144>>), Plant(NmiHandler, <<64>>)))) :
        at \in {512, 33023}, p \in {32, 36, 227, 231}, sp \in {256, 257, 509}}

\* an NMI handler that is RTI alone, entered from several places
NmiScenarios ==
    {Scenario(At(at, 7, p, sp), Merge(Plant(at, <<234>>), Plant(NmiHandler, <<64>>))) :
        at \in {513, 33023}, p \in {36, 231}, sp \in {256, 257, 509}}

\* the flag instructions, PHA and PLA, and fetches that wrap at $FFFF
MiscScenarios ==
    {Scenario(At(512, 129, p, 509), Plant(512, <<op, 104>>)) :
        op \in {24, 56, 88, 120, 184, 216, 248, 72}, p \in {36, 231}}
    \cup {Scenario(At(at, 0, 36, 509), Plant(at, bytes)) :
              at \in {65534, 65535}, bytes \in {<<234, 234>>, <<169, 129>>, <<76, 0, 2>>}}

Scenarios ==
    ArithScenarios \cup BranchScenarios \cup JumpScenarios \cup CallScenarios
        \cup ReturnScenarios \cup RtiScenarios \cup PlpScenarios \cup BrkScenarios
        \cup MiscScenarios \cup PhpScenarios \cup StackSetupScenarios
        \cup ShiftScenarios \cup NmiScenarios

Planted(m, sc) == [m EXCEPT !.registers = sc.regs, !.memory = sc.cells]

InitInstr ==
    /\ \E sc \in Scenarios : \E chk \in BOOLEAN :
          InitMachine(Planted(PowerOn("idle", chk), sc))
    /\ ppu = PPU_new
    /\ total_cycles = 7
    /\ running = FALSE
    /\ InitObservations

InstrStep ==
    /\ ~panicked
    /\ iteration < MaxInstrSteps
    /\ iteration' = iteration + 1
    /\ seq' = last
    /\ RegsIdle

\* the opcode of the step before, -1 if there was none
Previous == IF last.op = "step" THEN last.opcode ELSE 0 - 1

CpuStepped(opcode, r) ==
    /\ SetMachine(r.m)
    /\ last' = [op |-> "step", opcode |-> opcode, cycles |-> r.cycles,
                before |-> registers, prev |-> Previous]

CpuStep ==
    /\ InstrStep
    /\ MemAt(Machine, registers.pc) \in ModelledOpcodes
    /\ CpuStepped(MemAt(Machine, registers.pc), process_instruction(Machine))

CpuReset ==
    /\ InstrStep
    /\ SetMachine(reset(Machine))
    /\ last' = [op |-> "reset", before |-> registers]

CpuNmi ==
    /\ InstrStep
    /\ SetMachine(trigger_nmi(Machine))
    /\ last' = [op |-> "trigger_nmi", before |-> registers]

NextInstr == CpuStep \/ CpuReset \/ CpuNmi

SpecInstr == InitInstr /\ [][NextInstr]_vars

----------------------------------------------------------------------------
(* The 'running loop on the "nmi" cartridge, whose program enables the NMI  *)
(* and waits for the first VBlank, with the power-up window ended by        *)
(* PPURegisters::set_powerup_state(false).                                  *)

MaxNmiIterations == 60

InitNmi ==
    /\ \E chk \in BOOLEAN : InitMachine(reset(PowerOn("nmi", chk)))
    /\ ppu = PPU_new
    /\ total_cycles = 7
    /\ running = TRUE
    /\ InitObservations

NmiRun == iteration < MaxNmiIterations /\ Iteration

NmiPowerupEnd ==
    /\ running /\ ~panicked
    /\ ppu_regs.in_powerup_state
    /\ ppu_regs' = set_powerup_state(ppu_regs, FALSE)
    /\ last' = [op |-> "set_powerup_state"]
    /\ UNCHANGED <<ppu, registers, memory, vram, oam, panicked, checks,
                   total_cycles, running, rom, dots_handed, vblank_sets, nmi_count,
                   iteration, seq>>

NextNmi == NmiRun \/ NmiPowerupEnd

SpecNmi == InitNmi /\ [][NextNmi]_vars

----------------------------------------------------------------------------
(* The 'running loop stepped for whole frames: the passes go on until       *)
(* LiveFrames frames of dots have been handed to the PPU, with the loop     *)
(* scheduled for as long as it has not stopped.                             *)

LiveFrames == 2
LiveCarts == {"idle", "late", "dma"}

InitLive ==
    /\ \E cart \in LiveCarts : InitMachine(reset(PowerOn(cart, TRUE)))
    /\ ppu = PPU_new
    /\ total_cycles = 7
    /\ running = TRUE
    /\ InitObservations

\* the loop has not stopped and the frames are not over
LiveGuard ==
    /\ running /\ ~panicked
    /\ dots_handed < LiveFrames * FrameDots
    /\ MemAt(Machine, registers.pc) \in ModelledOpcodes

\* One pass of the 'running loop: lines 154-251
LiveRun ==
    /\ LiveGuard
    /\ IterationCpu(process_instruction(Machine))
    /\ running' = (registers.pc # 50798)
    /\ iteration' = iteration + 1
    /\ UNCHANGED seq

\* Event::Quit or Escape polled at the top of the loop: break 'running
LiveQuit == dots_handed < LiveFrames * FrameDots /\ Quit

NextLive == LiveRun \/ LiveQuit

\* The steps that count a pass are the LiveRun steps, and one is possible
\* exactly when LiveGuard holds: the loop is a sequential program that
\* executes its next pass unless it has stopped.
LiveStep == LiveGuard /\ iteration' = iteration + 1

SpecLive == InitLive /\ [][NextLive]_vars /\ WF_iteration(LiveStep)

----------------------------------------------------------------------------
(* Properties of the PPU stepping (SpecPPU).                                *)

MaxSplit == 8
VBlankDot == VBlankScanline * ScanlineDots + 1

\* how many times dot 1 of scanline 241 has been passed after d dots
EdgesBy(d) == (d + FrameDots - VBlankDot) \div FrameDots

VBlankFlag(regs) == BitAnd(regs.ppustatus, 128) = 128

\* once is what process(a + b) left and pa what process(a) left
SplitSame(once, pb) == pb.p = once.p /\ pb.regs = once.regs

SplitAgrees(a, b, once, pa) ==
    /\ once.p.cycle_remainders = 0
    /\ pa.p.cycle_remainders = 0
    /\ PositionOf(once.p) = (PositionOf(ppu) + a + b) % FrameDots
    /\ SplitSame(once, process(pa.p, pa.regs, b))

\* C3: from every reachable PPU state, process(n) spends all n dots and moves
\* the position forward by exactly n places of the 262 x 341 frame, staying
\* within scanline 0..261 and dot 0..340; and process(a) followed by
\* process(b) leaves the same PPU and register state as one process(a + b).
C3_SplitIndependent ==
    /\ ppu.cycle_remainders = 0
    /\ ppu.scanline \in 0 .. 261
    /\ ppu.scanline_cycle \in 0 .. 340
    /\ \A a \in 0 .. MaxSplit : \A b \in 0 .. MaxSplit :
          SplitAgrees(a, b, process(ppu, ppu_regs, a + b), process(ppu, ppu_regs, a))

\* a fetch cut short after one dot, on a scanline reached by wrapping
C3_Witness ==
    /\ ppu.scanline = 1
    /\ ppu.cycle_deduction = 1
    /\ ppu.fetch_state = "PatternTableTileLow"

\* C4: the position is the number of dots handed over, modulo the frame (it
\* only moves forward), and the VBlank flag has been set exactly as many
\* times as dot 1 of scanline 241 has been passed.
C4_VBlankOncePerFrame ==
    /\ PositionOf(ppu) = dots_handed % FrameDots
    /\ vblank_sets = EdgesBy(dots_handed)
    /\ (vblank_sets > 0 => VBlankFlag(ppu_regs))
    /\ (vblank_sets = 0 => ~VBlankFlag(ppu_regs))

\* the frame has wrapped after its VBlank
C4_Witness ==
    /\ vblank_sets = 1
    /\ dots_handed > FrameDots
    /\ ppu.scanline = 0

\* C5 (as claimed): once the PPU is past dot 1 of scanline 261 the VBlank flag
\* is clear, and it is clear on scanlines 0..240 of every later frame, with
\* no read of $2002 by the CPU.
C5_Claim ==
    ((ppu.scanline = PreRenderScanline /\ ppu.scanline_cycle >= 1)
        \/ (vblank_sets >= 1 /\ ppu.scanline <= 240))
    => ~VBlankFlag(ppu_regs)

----------------------------------------------------------------------------
(* Properties of the orchestrator loop (Spec).                              *)

PowerupCycles == 29658

\* The power-up window is over once PowerupCycles CPU cycles have gone by and
\* a VBlank edge has followed them.  The first edge comes after about 27,394
\* cycles, so the second edge is the first one to follow cycle 29,658.
WindowOver(cycles, dots) == cycles >= PowerupCycles /\ EdgesBy(dots) >= 2

\* the counters as they were before the last iteration
CyclesBefore == total_cycles - last.cycles
DotsBefore == dots_handed - 3 * last.cycles

\* the last iteration's instruction stored to address port outside the window
StoredTo(port) ==
    /\ last.op = "iteration"
    /\ last.store # <<>>
    /\ last.store[1] = port
    /\ WindowOver(CyclesBefore, DotsBefore)

\* C1 (as claimed): after every iteration the dots handed to PPU::process
\* are three times the CPU cycle count total_cycles.
C1_Claim == iteration > 0 => dots_handed = 3 * total_cycles

\* C2 (as claimed): an iteration calls trigger_nmi exactly when its PPU step
\* passed dot 1 of scanline 241 with PPUCTRL bit 7 set, and a PPUCTRL write
\* made by the instruction of that iteration is what that PPU step sees.
C2_Claim ==
    last.op = "iteration" =>
        /\ last.nmi <=> (EdgesBy(dots_handed) > EdgesBy(DotsBefore)
                          /\ BitAnd(ppu_regs.ppuctrl, 128) = 128)
        /\ (StoredTo(PORT_PPUCTRL) => ppu_regs.ppuctrl = last.store[2])

\* C7 (as claimed): once the window is over the register file has left the
\* power-up state, and a write to $2000 or $2001 sets PPUCTRL or PPUMASK.
C7_Claim ==
    /\ WindowOver(total_cycles, dots_handed) => ~ppu_regs.in_powerup_state
    /\ StoredTo(PORT_PPUCTRL) => ppu_regs.ppuctrl = last.store[2]
    /\ StoredTo(PORT_PPUMASK) => ppu_regs.ppumask = last.store[2]

----------------------------------------------------------------------------
(* Properties of NMI entry (SpecCPU).                                       *)

\* the stack address k places below a (wrapping within page 1)
StackBelow(a, k) == 256 + ((a - 256 + 256 - k) % 256)

\* C6 (as claimed): NMI entry pushes the high byte of pc, the low byte of pc
\* and then P with bit 4 clear and bit 5 set, lowers SP by 3 (mod 256), sets
\* the I flag and loads PC from the word at $FFFA/$FFFB.
C6_Claim ==
    last.op = "trigger_nmi" =>
        LET b == last.before
        IN  /\ MemAt(Machine, b.stack) = b.pc \div 256
            /\ MemAt(Machine, StackBelow(b.stack, 1)) = b.pc % 256
            /\ MemAt(Machine, StackBelow(b.stack, 2))
                  = BitOr(BitAnd(b.status, Not8(FlagBreakCommand)), FlagUnused)
            /\ registers.stack = StackBelow(b.stack, 3)
            /\ flag(registers, FlagInterruptDisable)
            /\ registers.pc = BitOr(MemAt(Machine, NMI_VECTOR),
                                    MemAt(Machine, NMI_VECTOR + 1) * 256)

----------------------------------------------------------------------------
(* Properties of the register ports (SpecRegs).                             *)

\* C8: a read of $2002 returns PPUSTATUS as it was, clears bit 7 and both
\* write toggles and changes nothing else in the register file, RAM, OAM or
\* VRAM; a read that directly follows another one returns bit 7 clear.
C8_StatusRead ==
    [][ (iteration' = iteration + 1 /\ last'.op = "read8") =>
          /\ last'.value = ppu_regs.ppustatus
          /\ ppu_regs' = [ppu_regs EXCEPT !.ppustatus = BitAnd(@, 127),
                                          !.ppuscroll_toggle = FALSE,
                                          !.ppuaddr_toggle = FALSE]
          /\ ~VBlankFlag(ppu_regs')
          /\ UNCHANGED <<memory, vram, oam, registers, panicked>>
          /\ (last.op = "read8" => last'.value < 128) ]_vars

\* $2002 was read with the VBlank flag set and the scroll toggle on
C8_Witness ==
    /\ last.op = "read8"
    /\ last.value >= 128
    /\ ~VBlankFlag(ppu_regs)
    /\ ppu_regs.ppuscroll_x # 0
    /\ ~ppu_regs.ppuscroll_toggle

Scroll(v) == <<PORT_PPUSCROLL, v>>
Addr(v) == <<PORT_PPUADDR, v>>

\* C9: outside the power-up state, after a read of $2002 (whatever writes
\* came before it), the next write to $2005 sets scroll x and the one after
\* it scroll y; the next write to $2006 sets the high byte of PPUADDR and the
\* one after it the low byte.
C9_ReadResetsToggle ==
    seq.valid =>
        \A a \in WriteVals(PORT_PPUSCROLL) :
            /\ seq.writes = <<Scroll(a)>> => ppu_regs.ppuscroll_x = a
            /\ seq.writes = <<Addr(a)>> => ppu_regs.ppuaddr \div 256 = a
            /\ \A b \in WriteVals(PORT_PPUSCROLL) :
                /\ seq.writes = <<Scroll(a), Scroll(b)>>
                      => ppu_regs.ppuscroll_x = a /\ ppu_regs.ppuscroll_y = b
                /\ seq.writes = <<Addr(a), Addr(b)>>
                      => ppu_regs.ppuaddr = a * 256 + b

\* one write left the toggle on, $2002 was read, two more writes followed
C9_Witness ==
    /\ seq.valid
    /\ seq.before = 1
    /\ Len(seq.writes) = 2
    /\ seq.writes[1][1] = seq.writes[2][1]
    /\ seq.writes[1][2] # seq.writes[2][2]

\* C10 (as claimed): the two ports share one toggle, so after a read of
\* $2002 a write to $2005 followed by a write to $2006 puts the second value
\* in the low byte of PPUADDR, and a write to $2006 followed by a write to
\* $2005 sets scroll y.
C10_Claim ==
    seq.valid =>
        \A a \in WriteVals(PORT_PPUSCROLL) : \A b \in WriteVals(PORT_PPUSCROLL) :
            /\ seq.writes = <<Scroll(a), Addr(b)>> => ppu_regs.ppuaddr % 256 = b
            /\ seq.writes = <<Addr(a), Scroll(b)>> => ppu_regs.ppuscroll_y = b

----------------------------------------------------------------------------
(* Properties of address translation (SpecRam).                             *)

\* the translation the memory map asks for
Folded(a) ==
    IF a < 8192 THEN a % 2048
    ELSE IF a < 16384 THEN 8192 + (a % 8)
    ELSE a

\* addresses on both sides of every boundary of the map
TranslateProbe ==
    {0, 1, 2047, 2048, 4095, 4096, 6143, 6144, 8191, 8192, 8199, 8200, 12291,
     16383, 16384, 16404, 32767, 32768, 65535}

\* C14: translate_address(a) is a mod $800 below $2000, $2000 + (a mod 8)
\* from $2000 to $3FFF and a above; a byte written with write8 below $2000
\* is read back by read8 at every mirror of its cell and at no other RAM
\* address, and no other cell of memory changes.
C14_RamMirrors ==
    [][ (/\ iteration' = iteration + 1
         /\ last'.op = "write8"
         /\ last'.address < 8192) =>
          /\ \A a \in TranslateProbe \cup RamAddrs : translate_address(a) = Folded(a)
          /\ \A b \in 0 .. 8191 :
                b % 2048 = last'.address % 2048 => read8(Machine', b).value = last'.value
          /\ \A x \in (DOMAIN memory \cup DOMAIN memory') \ {last'.address % 2048} :
                MemAt(Machine', x) = MemAt(Machine, x)
          /\ \A b \in RamAddrs :
                (b < 8192 /\ b % 2048 # last'.address % 2048) =>
                    read8(Machine', b).value = read8(Machine, b).value
          /\ UNCHANGED <<ppu_regs, vram, oam, panicked>> ]_vars

\* a byte written at $0005 was read back at $0805 while $07FF held another
C14_Witness ==
    /\ last.op = "read8"
    /\ last.address = 2053
    /\ last.value = 200
    /\ DOMAIN memory = {5, 2047}

----------------------------------------------------------------------------
(* Properties of the VRAM data port.                                        *)

\* the "vram" program has reached its final JMP: the eight stores are done
VramProgramDone ==
    /\ rom = "vram"
    /\ registers.pc = PRG_BANK1_LOCATION + 2 + 3 * DmaWaits + 20
    /\ registers.accumulator = 187

\* C11 (as claimed): after LDA #$01; STA $2006; LDA #$23; STA $2006;
\* LDA #$AA; STA $2007; LDA #$BB; STA $2007, executed after the power-up
\* window, VRAM[$0123] = $AA and VRAM[$0124] = $BB and no other VRAM byte
\* has changed.
C11_Claim ==
    VramProgramDone =>
        /\ CellAt(vram, 291) = 170
        /\ CellAt(vram, 292) = 187
        /\ DOMAIN vram \subseteq {291, 292}

----------------------------------------------------------------------------
(* Properties of the bus ports (SpecBus).                                   *)

\* the port that address a of $2008..$3FFF mirrors: $2000 | (a & 7)
MirroredPort(a) == 8192 + (a % 8)

\* mirrors of $2000, $2002, $2003, $2004, $2006 and $2007
MirrorProbe == {8200, 8204, 8207, 12290, 12294, 16379}

\* two accesses returned the same and left the same register file, OAM, VRAM
SameAccess(x, y, rx, ry) ==
    /\ x = y
    /\ rx.m.ppu_regs = ry.m.ppu_regs
    /\ rx.m.oam = ry.m.oam
    /\ rx.m.vram = ry.m.vram
    /\ rx.m.panicked = ry.m.panicked

SameRead(rx, ry) == SameAccess(rx.value, ry.value, rx, ry)
SameWrite(rx, ry) == SameAccess(rx.penalty, ry.penalty, rx, ry)

\* C13 (as claimed): for every address a in $2008..$3FFF, read8(a) and
\* write8(a, v) return the same value and have the same effect on the
\* register file, OAM and VRAM as the same access made at $2000 | (a & 7).
C13_Claim ==
    ~panicked =>
        \A a \in MirrorProbe :
            /\ SameRead(read8(Machine, a), read8(Machine, MirroredPort(a)))
            /\ \A v \in BusVals :
                  SameWrite(write8(Machine, a, v), write8(Machine, MirroredPort(a), v))

\* the step stored last'.value at address port
Stored(port) ==
    /\ iteration' = iteration + 1
    /\ last'.op = "write8"
    /\ last'.address = port

\* the step loaded from address port
Loaded(port) ==
    /\ iteration' = iteration + 1
    /\ last'.op = "read8"
    /\ last'.address = port

\* C15 (as claimed): after write8($4014, v) with OAMADDR = k, for every i in
\* 0..255 the byte OAM[(k + i) mod 256] equals the CPU-visible byte at
\* address v*$100 + i, for every k and every page v.
C15_Claim ==
    [][ Stored(PORT_OAMDMA) =>
          /\ ~panicked'
          /\ \A i \in 0 .. 255 :
                CellAt(oam', (ppu_regs.oamaddr + i) % 256)
                    = MemAt(Machine', last'.value * 256 + i) ]_vars

\* C17 (as claimed): write8($2004, v) stores v at OAM[OAMADDR] for every
\* OAMADDR value 0..255, changes no other OAM byte, sets OAMADDR to
\* (OAMADDR + 1) mod 256 and changes no other register (the low 5 bits of
\* PPUSTATUS aside, which latch the written value).
C17_Claim ==
    [][ Stored(PORT_OAMDATA) =>
          /\ ~panicked'
          /\ CellAt(oam', ppu_regs.oamaddr) = last'.value
          /\ \A x \in (DOMAIN oam \cup DOMAIN oam') \ {ppu_regs.oamaddr} :
                CellAt(oam', x) = CellAt(oam, x)
          /\ ppu_regs'.oamaddr = (ppu_regs.oamaddr + 1) % 256
          /\ [ppu_regs' EXCEPT !.oamaddr = 0, !.ppustatus = @ \div 32]
                = [ppu_regs EXCEPT !.oamaddr = 0, !.ppustatus = @ \div 32] ]_vars

\* C18 (as claimed): read8($2004) returns OAM[OAMADDR] and does not change
\* OAMADDR.
C18_Claim ==
    [][ Loaded(PORT_OAMDATA) =>
          /\ last'.value = CellAt(oam, ppu_regs.oamaddr)
          /\ ppu_regs'.oamaddr = ppu_regs.oamaddr ]_vars

\* C19 (as claimed): no bus access changes a byte of $8000..$FFFF as read8
\* returns it, and none changes a byte of the CHR pattern tables at PPU
\* addresses $0000..$1FFF.
C19_Claim ==
    [][ /\ \A a \in DOMAIN memory \cup DOMAIN memory' :
              a >= PRG_BANK1_LOCATION =>
                  read8(Machine', a).value = read8(Machine, a).value
        /\ \A x \in DOMAIN vram \cup DOMAIN vram' :
              x < 8192 => CellAt(vram', x) = CellAt(vram, x) ]_vars

\* C20 (as claimed): no sequence of bus reads and writes indexes CPU memory,
\* VRAM or OAM outside its bounds or overflows an address register.
C20_Claim == last.op \in {"read8", "read16", "write8"} => ~panicked

----------------------------------------------------------------------------
(* Properties of the OAM DMA penalty (Spec).                                *)

StaAbsoluteCycles == 4

\* what OAM DMA adds to an instruction that starts on CPU cycle c
DmaPenalty(c) == IF c % 2 = 0 THEN 513 ELSE 514

\* C16 (as claimed): an instruction whose store hits $4014 returns its
\* normal cost plus 513 on an even CPU cycle and plus 514 on an odd one; a
\* store to any other address adds no penalty.
C16_Claim ==
    (last.op = "iteration" /\ last.store # <<>>) =>
        last.cycles = StaAbsoluteCycles
                        + (IF last.store[1] = PORT_OAMDMA
                           THEN DmaPenalty(CyclesBefore) ELSE 0)

----------------------------------------------------------------------------
(* Properties of the cartridge load (SpecLoad).                             *)

\* the byte the memory map asks for at address a of $8000..$FFFF
MappedPrg(cart, a) ==
    IF a < PRG_BANK2_LOCATION THEN BankByte(cart, 0, a - PRG_BANK1_LOCATION)
    ELSE BankByte(cart, PrgBanks(cart) - 1, a - PRG_BANK2_LOCATION)

\* C21 (as claimed): after startup read8($8000 + i) is byte i of the first
\* PRG bank and read8($C000 + i) byte i of the last one (the same bank for a
\* cartridge of one bank), so the reset vector comes from the last bank.
C21_Claim ==
    /\ last.op = "read8" => last.value = MappedPrg(rom, last.address)
    /\ registers.pc = MappedPrg(rom, RESET_VECTOR) + 256 * MappedPrg(rom, RESET_VECTOR + 1)

----------------------------------------------------------------------------
(* Properties of the CPU instructions (SpecInstr).                          *)

\* the little-endian word at address a and the address after it
WordAt(m, a) == MemAt(m, a) + 256 * MemAt(m, (a + 1) % 65536)

\* C22: from any CPU state, CPU::reset yields A = X = Y = 0, P = $24,
\* SP = $FD and PC = the little-endian word stored at $FFFC/$FFFD, and
\* changes no memory byte and no PPU register.
C22_Reset ==
    [][ last'.op = "reset" =>
          /\ registers' = [accumulator |-> 0, x |-> 0, y |-> 0, status |-> 36,
                           stack |-> 256 + 253, pc |-> WordAt(Machine, RESET_VECTOR)]
          /\ ~panicked'
          /\ UNCHANGED <<memory, ppu_regs, vram, oam>> ]_vars

\* reset came after an instruction that left A, X, Y, P and SP different
\* from their reset values, with a stack byte written
C22_Witness ==
    /\ last.op = "reset"
    /\ last.before.accumulator = 129
    /\ last.before.x = 64
    /\ last.before.status = 231
    /\ last.before.stack = 255 + 256
    /\ registers.pc = PRG_BANK1_LOCATION
    /\ registers.status = 36
    /\ DOMAIN memory # {}

\* the step executed an instruction with one of the opcodes ops
Executed(ops) == last'.op = "step" /\ last'.opcode \in ops

\* C23 (as claimed): after executing any instruction the stack address is in
\* $0100..$01FF and PC in $0000..$FFFF, with wrap-around and no arithmetic
\* fault.
C23_Claim ==
    [][ last'.op = "step" =>
          /\ ~panicked'
          /\ registers'.stack \in 256 .. 511
          /\ registers'.pc \in 0 .. 65535 ]_vars

\* C24: in every CPU state bit 5 (U) of P is 1, across every instruction
\* sequence including PLP and RTI popping a byte with bit 5 clear, BRK and
\* NMI entry.
C24_UnusedSet == BitAnd(registers.status, FlagUnused) = FlagUnused

\* PLP popped $CF, a byte with bits 4 and 5 clear
C24_Witness ==
    /\ last.op = "step"
    /\ last.opcode = 40
    /\ MemAt(Machine, registers.stack) = 207
    /\ registers.status = 239

\* the operand byte of the instruction that started at b.pc
OperandOf(b) == MemAt(Machine, (b.pc + 1) % 65536)

\* r is the register file ADC of v left from b, sum the exact sum
ArithSum(b, r, v, sum) ==
    /\ r.accumulator = sum % 256
    /\ flag(r, FlagCarry) = (sum > 255)
    /\ flag(r, FlagOverflow) = (/\ (b.accumulator >= 128) = (v >= 128)
                                /\ (sum % 256 >= 128) # (b.accumulator >= 128))
    /\ flag(r, FlagZero) = (sum % 256 = 0)
    /\ flag(r, FlagSign) = (sum % 256 >= 128)
    /\ BitAnd(r.status, 60) = BitAnd(b.status, 60)
    /\ r.x = b.x /\ r.y = b.y /\ r.stack = b.stack
    /\ r.pc = (b.pc + 2) % 65536

ArithAgrees(b, r, v) == ArithSum(b, r, v, b.accumulator + v + (b.status % 2))

\* C25: ADC gives A' = (A + M + c) mod 256, C' = (A + M + c > 255), V' = 1
\* iff A and M have the same bit 7 and A' the opposite one, Z' = (A' = 0),
\* N' = bit 7 of A', whether D is set or clear, and SBC M gives the result
\* of ADC (M xor $FF).
C25_Adc ==
    [][ Executed({105, 233}) =>
          ArithAgrees(registers, registers',
                      IF last'.opcode = 105 THEN OperandOf(registers)
                      ELSE BitXor(OperandOf(registers), 255)) ]_vars

\* SBC #$D0 from A = $50 with C and D set: $80, V set, C clear
C25_Witness ==
    /\ last.op = "step"
    /\ last.opcode = 233
    /\ last.before.accumulator = 80
    /\ last.before.status = 45
    /\ registers.accumulator = 128
    /\ flag(registers, FlagOverflow)
    /\ ~flag(registers, FlagCarry)
    /\ flag(registers, FlagDecimal)

\* an operand byte as a signed offset
Signed(v) == IF v < 128 THEN v ELSE v - 256

\* whether the branch with opcode op is to be taken with registers regs
BranchCondition(op, regs) ==
    CASE op = 16  -> ~flag(regs, FlagSign)
      [] op = 48  -> flag(regs, FlagSign)
      [] op = 80  -> ~flag(regs, FlagOverflow)
      [] op = 112 -> flag(regs, FlagOverflow)
      [] op = 144 -> ~flag(regs, FlagCarry)
      [] op = 176 -> flag(regs, FlagCarry)
      [] op = 208 -> ~flag(regs, FlagZero)
      [] OTHER    -> flag(regs, FlagZero)

\* p is the PC after the operand fetch, target the branch target
BranchAgrees(p, target, taken, pc, cycles) ==
    IF taken
    THEN pc = target /\ cycles = (IF target \div 256 = p \div 256 THEN 3 ELSE 4)
    ELSE pc = p /\ cycles = 2

BranchFrom(p, d, taken, pc, cycles) ==
    BranchAgrees(p, (p + d + 65536) % 65536, taken, pc, cycles)

\* C26 (as claimed): for each of the eight branches with the PC after the
\* operand fetch equal to p and signed offset d: not taken, PC = p and the
\* cost is 2 cycles; taken, PC = (p + d) mod 65536 and the cost is 3 cycles
\* when the high byte of PC equals that of p and 4 when it differs.
C26_Claim ==
    [][ Executed(BranchOpcodes) =>
          BranchFrom((registers.pc + 2) % 65536, Signed(OperandOf(registers)),
                     BranchCondition(last'.opcode, registers),
                     registers'.pc, last'.cycles) ]_vars

\* where JMP (ptr) is to go: low byte from ptr, high byte from ptr + 1, or
\* from the start of ptr's page when ptr is its last byte
JumpTarget(ptr) ==
    MemAt(Machine, ptr)
        + 256 * MemAt(Machine, IF ptr % 256 = 255 THEN ptr - 255 ELSE ptr + 1)

JumpAgrees(ptr, pc) ==
    /\ pc = JumpTarget(ptr)
    /\ resolve_address_indirect(Machine, ptr) = JumpTarget(ptr)

\* C27 (as claimed): JMP indirect with pointer p takes the low byte of the
\* new PC from mem[p] and the high byte from mem[p + 1], or from
\* mem[p & $FF00] when the low byte of p is $FF, and both address resolvers
\* of the source compute this same address.
C27_Claim ==
    [][ Executed({108}) =>
          JumpAgrees(WordAt(Machine, (registers.pc + 1) % 65536), registers'.pc) ]_vars

\* A, X, Y and P of r are those of b
SameAXYP(b, r) ==
    /\ r.accumulator = b.accumulator
    /\ r.x = b.x
    /\ r.y = b.y
    /\ r.status = b.status

\* the word the next two pops return
PoppedWord(b) ==
    MemAt(Machine, StackAbove(b.stack, 1)) + 256 * MemAt(Machine, StackAbove(b.stack, 2))

\* JSR at b.pc: r and m are the registers and the machine it left
JsrAgrees(b, r, m) ==
    /\ MemAt(m, b.stack) = (b.pc + 2) \div 256
    /\ MemAt(m, StackBelow(b.stack, 1)) = (b.pc + 2) % 256
    /\ r.stack = StackBelow(b.stack, 2)
    /\ r.pc = WordAt(Machine, b.pc + 1)
    /\ SameAXYP(b, r)

RtsAgrees(b, r) ==
    /\ r.pc = PoppedWord(b) + 1
    /\ r.stack = StackAbove(b.stack, 2)
    /\ SameAXYP(b, r)

\* j is the register file before the JSR that the RTS returns from
PairAgrees(j, r) ==
    /\ r.pc = j.pc + 3
    /\ r.stack = j.stack
    /\ SameAXYP(j, r)

\* C28: JSR at address a with target t pushes the high byte and then the low
\* byte of a + 2 and sets PC = t; RTS pops low then high and sets PC to the
\* popped word plus 1; JSR followed by RTS resumes at a + 3 with SP, A, X, Y
\* and P as before the JSR (a + 3 and the popped word plus 1 being
\* addresses, that is at most $FFFF).
C28_JsrRts ==
    [][ /\ (Executed({32}) /\ registers.pc + 3 <= 65535)
            => JsrAgrees(registers, registers', Machine')
        /\ (Executed({96}) /\ PoppedWord(registers) < 65535)
            => RtsAgrees(registers, registers')
        /\ (Executed({96}) /\ last.op = "step" /\ last.opcode = 32
                /\ last.before.pc + 3 <= 65535)
            => PairAgrees(last.before, registers') ]_vars

\* RTS returned from the JSR at $80FD, whose pushes wrapped from $0100 to
\* $01FF
C28_Witness ==
    /\ last.op = "step"
    /\ last.opcode = 96
    /\ last.prev = 32
    /\ registers.pc = 33024
    /\ registers.stack = 256
    /\ registers.accumulator = 129
    /\ ~panicked

\* BRK pushed the address q, high byte first, and then P with B and U set
BrkPushed(b, m, q) ==
    /\ MemAt(m, b.stack) = q \div 256
    /\ MemAt(m, StackBelow(b.stack, 1)) = q % 256
    /\ MemAt(m, StackBelow(b.stack, 2)) = BitOr(b.status, 48)

BrkAgrees(b, r, m) ==
    /\ \E q \in {(b.pc + 1) % 65536, (b.pc + 2) % 65536} : BrkPushed(b, m, q)
    /\ r.stack = StackBelow(b.stack, 3)
    /\ r.status = BitOr(b.status, FlagInterruptDisable)
    /\ r.pc = WordAt(Machine, 65534)

\* C29 (as claimed): BRK pushes the high byte of PC, then the low byte of
\* PC, then P with bits 4 and 5 set, lowers SP by 3, sets the I flag leaving
\* the other flags of the register unchanged, and loads PC from the word at
\* $FFFE/$FFFF.
C29_Claim == [][ Executed({0}) => BrkAgrees(registers, registers', Machine') ]_vars

RtiAgrees(b, r) ==
    /\ r.status = BitAnd(BitOr(MemAt(Machine, StackAbove(b.stack, 1)), 32), 239)
    /\ r.pc = MemAt(Machine, StackAbove(b.stack, 2))
                + 256 * MemAt(Machine, StackAbove(b.stack, 3))
    /\ r.stack = StackAbove(b.stack, 3)
    /\ r.accumulator = b.accumulator /\ r.x = b.x /\ r.y = b.y

\* C30 (as claimed): RTI pops b1, b2, b3 and sets P = (b1 | $20) & ~$10 and
\* PC = b2 | (b3 << 8); SP increases by 3 (mod 256) and A, X, Y and memory
\* are unchanged.
C30_Claim ==
    [][ Executed({64}) => (RtiAgrees(registers, registers') /\ UNCHANGED memory) ]_vars

----------------------------------------------------------------------------
\* C31: PHP writes P | $30 at the stack address and does not change P; PHP
\* followed by PLP leaves SP unchanged and P unchanged except that bit 4 is
\* cleared and bit 5 is set.
PhpAgrees(b, r, m) ==
    /\ MemAt(m, b.stack) = BitOr(b.status, 48)
    /\ r.status = b.status
    /\ r.stack = StackAbove(b.stack, 255)

PhpPlpAgrees(b, r) ==
    /\ r.stack = b.stack
    /\ r.status = BitAnd(BitOr(b.status, FlagUnused), Not8(FlagBreakCommand))

C31_PhpPlp ==
    [][ /\ Executed({8}) => PhpAgrees(registers, registers', Machine')
        /\ (Executed({40}) /\ last.op = "step" /\ last.opcode = 8)
            => PhpPlpAgrees(last.before, registers') ]_vars

\* PHP and PLP have run with bit 4 set in P, at the bottom
\* of the stack page
C31_Witness ==
    /\ last.op = "step"
    /\ last.opcode = 40
    /\ last.prev = 8
    /\ seq.op = "step"
    /\ seq.before.status = 251
    /\ seq.before.stack = 256
    /\ registers.status = 235

----------------------------------------------------------------------------
\* LDX #$FF; TXS have run from the registers of reset and PHP is next
StackSetupDone ==
    /\ last.op = "step" /\ last.opcode = 154
    /\ seq.op = "step" /\ seq.opcode = 162
    /\ seq.before = [CPURegisters_new EXCEPT !.pc = seq.before.pc]
    /\ registers.x = 255

\* C32 (as claimed): from the reset state, LDX #$FF; TXS; PHP leaves the byte
\* at $01FF equal to (P at reset) | $30 and SP = $FE.
C32_Claim ==
    [][ (Executed({8}) /\ StackSetupDone)
            => /\ MemAt(Machine', 511) = BitOr(seq.before.status, 48)
               /\ registers'.stack = 510 ]_vars

\* the status register after LDX #$FF loaded a negative, non-zero value
AfterLdxFF(p) == BitAnd(BitOr(p, FlagSign), Not8(FlagZero))

\* C32 (amended): from the reset state, LDX #$FF; TXS; PHP leaves the byte at
\* $01FF equal to (P after LDX #$FF) | $30, which is P at reset with N set
\* and Z clear, | $30 = $B4, and SP = $FE.
C32_StackSetup ==
    [][ (Executed({8}) /\ StackSetupDone)
            => /\ MemAt(Machine', 511) = BitOr(AfterLdxFF(seq.before.status), 48)
               /\ MemAt(Machine', 511) = 180
               /\ registers'.stack = 510 ]_vars

\* PHP has run after LDX #$FF; TXS and pushed $B4 at $01FF
C32_Witness ==
    /\ last.op = "step" /\ last.opcode = 8 /\ last.prev = 154
    /\ seq.op = "step" /\ seq.opcode = 154 /\ seq.prev = 162
    /\ seq.before.x = 255
    /\ last.before.stack = 511
    /\ registers.stack = 510
    /\ MemAt(Machine, 511) = 180

----------------------------------------------------------------------------
\* the ports without read behaviour: the write-only PPU ports and $4000..$401F
InertPorts ==
    {PORT_PPUCTRL, PORT_PPUMASK, PORT_OAMADDR, PORT_PPUSCROLL, PORT_PPUADDR}
        \cup (16384 .. 16415)

\* C33 (as claimed): read8 of a port without read behaviour ($2000, $2001,
\* $2003, $2005, $2006 and $4000..$401F) returns 0, also after values have
\* been written to the same address.
C33_Claim ==
    [][ \A port \in InertPorts : Loaded(port) => last'.value = 0 ]_vars

----------------------------------------------------------------------------
\* a and a + 1 lie in the same mirror region
SameRegion(a) == a + 1 <= 8191 \/ (a >= PRG_BANK1_LOCATION /\ a + 1 <= 65535)

\* the step loaded a word from address a
LoadedWord(a) ==
    /\ iteration' = iteration + 1
    /\ last'.op = "read16"
    /\ last'.address = a

\* the word that two read8 calls compose
WordOfBytes(m, a) == BitOr(read8(m, a).value, read8(m, a + 1).value * 256)

\* C34 (as claimed): for every a with a and a + 1 in the same mirror region
\* (both in $0000..$1FFF or both in $8000..$FFFF),
\* read16(a) = read8(a) | (read8(a + 1) << 8), also at a = $07FF, $0FFF and
\* $17FF, where a + 1 is the first byte of the next RAM mirror.
C34_Claim ==
    [][ \A a \in BusWordAddrs :
          (LoadedWord(a) /\ SameRegion(a))
              => (~panicked' /\ last'.value = WordOfBytes(Machine', a)) ]_vars

----------------------------------------------------------------------------
\* C35 (as claimed): after a write8 of v to any of the ports $2000..$2007, in
\* or out of the power-up window, the low 5 bits of PPUSTATUS equal v & $1F
\* and bits 5..7 of PPUSTATUS are unchanged by the write.
C35_Claim ==
    [][ \A port \in PORT_PPUCTRL .. PORT_PPUDATA :
          (Stored(port) /\ ~panicked')
              => /\ BitAnd(ppu_regs'.ppustatus, 31) = BitAnd(last'.value, 31)
                 /\ BitAnd(ppu_regs'.ppustatus, 224) = BitAnd(ppu_regs.ppustatus, 224) ]_vars

----------------------------------------------------------------------------
\* the iteration called trigger_nmi
NmiIteration ==
    /\ iteration' = iteration + 1
    /\ last'.op = "iteration"
    /\ last'.nmi

\* C36 (as claimed): in the iteration in which the orchestrator calls
\* trigger_nmi, the CPU cycle count grows by the instruction's cycles plus 7
\* and the PPU is handed the corresponding 21 extra dots.
C36_Claim ==
    [][ NmiIteration =>
          /\ total_cycles' = total_cycles + last'.cycles + 7
          /\ dots_handed' = dots_handed + 3 * (last'.cycles + 7) ]_vars

----------------------------------------------------------------------------
\* the address of a shift's operand as the program bytes give it (A has none)
ShiftAddress(op, m, pc) ==
    IF op % 32 = 6 THEN MemAt(m, offset_wrap(pc, 1))
    ELSE MemAt(m, offset_wrap(pc, 1)) + 256 * MemAt(m, offset_wrap(pc, 2))

\* the operand of the shift op in machine m with registers regs
ShiftOperand(op, m, regs) ==
    IF op % 32 = 10 THEN regs.accumulator ELSE MemAt(m, ShiftAddress(op, m, regs.pc))

CarryIn(regs) == IF flag(regs, FlagCarry) THEN 1 ELSE 0

\* op \div 32: 0 is ASL, 1 ROL, 2 LSR, 3 ROR
ShiftResult(op, v, c) ==
    CASE op \div 32 = 0 -> (2 * v) % 256
      [] op \div 32 = 1 -> (2 * v + c) % 256
      [] op \div 32 = 2 -> v \div 2
      [] OTHER -> v \div 2 + 128 * c

ShiftedOut(op, v) == IF op \div 32 \in {0, 1} THEN v >= 128 ELSE v % 2 = 1

\* the registers r and machine m after the shift op of operand v, carry c,
\* at pc
ShiftAgrees(op, v, c, pc, r, m) ==
    /\ (IF op % 32 = 10 THEN r.accumulator ELSE MemAt(m, ShiftAddress(op, m, pc)))
            = ShiftResult(op, v, c)
    /\ flag(r, FlagCarry) = ShiftedOut(op, v)
    /\ flag(r, FlagZero) = (ShiftResult(op, v, c) = 0)
    /\ flag(r, FlagSign) = (ShiftResult(op, v, c) >= 128)

\* C37 (as claimed): for ASL, LSR, ROL and ROR on A and on memory, for all
\* operands v and incoming carry c, the result is written back, C receives
\* the bit shifted out, Z = (result = 0) and N = bit 7 of the result; a
\* memory ROL of $80 with C = 0 leaves Z set.
C37_Claim ==
    [][ \A op \in ShiftOpcodes :
          Executed({op}) =>
              ShiftAgrees(op, ShiftOperand(op, Machine, registers), CarryIn(registers),
                          registers.pc, registers', Machine') ]_vars

----------------------------------------------------------------------------
\* the four fetch phases in their order
FetchPhases == <<"NameTable", "AttributeTable", "PatternTableTileLow", "PatternTableTileHigh">>

\* the phase that dot d of a rendered scanline belongs to
PhaseAt(d) ==
    IF d = 0 THEN "NameTable"
    ELSE IF d <= 336 THEN FetchPhases[((d - 1) % 8) \div 2 + 1]
    ELSE IF d <= 338 THEN "NameTable"
    ELSE "AttributeTable"

Rendered(p) == p.scanline < 240 \/ p.scanline = PreRenderScanline

\* C38: on scanlines 0..239 and 261 dot 0 is one idle dot; when process has
\* returned with the dot counter d in 1..336, the fetch phase is number
\* floor(((d - 1) mod 8) / 2) of NameTable, AttributeTable,
\* PatternTableTileLow, PatternTableTileHigh, each phase 2 dots long, with
\* cycle_deduction = 1 exactly when d is even; dots 337..340 hold two 2-dot
\* fetches; every scanline begins with fetch_state = NameTable and lasts
\* exactly 341 dots.
C38_FetchPhases ==
    /\ ppu.scanline_cycle \in 0 .. ScanlineDots - 1
    /\ ppu.scanline_cycle = (dots_handed % FrameDots) % ScanlineDots
    /\ ppu.scanline = (dots_handed % FrameDots) \div ScanlineDots
    /\ (ppu.scanline_cycle = 0 => (ppu.fetch_state = "NameTable" /\ ppu.idle_cycle))
    /\ Rendered(ppu) =>
          /\ ppu.idle_cycle <=> ppu.scanline_cycle = 0
          /\ ppu.fetch_state = PhaseAt(ppu.scanline_cycle)
          /\ ppu.cycle_deduction =
                (IF ppu.scanline_cycle > 0 /\ ppu.scanline_cycle % 2 = 0 THEN 1 ELSE 0)
    /\ ~Rendered(ppu) => (ppu.fetch_state = "NameTable" /\ ppu.cycle_deduction = 0)

\* the last dot of the pre-render scanline, inside the second dummy fetch
C38_Witness ==
    /\ ppu.scanline = PreRenderScanline
    /\ ppu.scanline_cycle = 340
    /\ ppu.fetch_state = "AttributeTable"
    /\ ppu.cycle_deduction = 1
    /\ dots_handed > 0

----------------------------------------------------------------------------
\* the registers r after RTI returned from an entry made with registers b
\* that pushed the program counter pc
ReturnAgrees(b, pc, r) ==
    /\ r.pc = pc
    /\ r.stack = b.stack
    /\ r.status = BitAnd(BitOr(b.status, FlagUnused), Not8(FlagBreakCommand))

\* C39 (as claimed): if trigger_nmi is entered with program counter p,
\* status s and stack pointer k and the handler executes RTI with the stack
\* pointer as the entry left it, then after RTI PC = p, SP = k and P = s with
\* bit 5 set and bit 4 clear; the same holds for BRK followed by RTI with
\* respect to the PC value BRK pushed.
C39_Claim ==
    [][ /\ (Executed({64}) /\ last.op = "trigger_nmi")
            => ReturnAgrees(last.before, last.before.pc, registers')
        /\ (Executed({64}) /\ last.op = "step" /\ last.opcode = 0)
            => ReturnAgrees(last.before, offset_wrap(last.before.pc, 1), registers') ]_vars

----------------------------------------------------------------------------
\* the pass of the loop executed an instruction
LivePass == iteration' = iteration + 1 /\ last'.op = "iteration"

\* the loop has stopped: a quit event, the break at $C66E or a panic
Stopped == ~running \/ panicked

\* C40: every executed instruction returns at least 2 cycles, so every pass
\* of the loop hands the PPU at least 6 dots, and PPU::process returns with
\* no unspent dots; as long as the loop goes on, the PPU passes dot 1 of
\* scanline 241 in every frame.
C40_VBlankEveryFrame ==
    /\ [][ LivePass =>
              /\ last'.cycles >= 2
              /\ dots_handed' >= dots_handed + 6
              /\ ppu'.cycle_remainders = 0 ]_vars
    /\ \A k \in 0 .. LiveFrames - 1 :
          (vblank_sets = k) ~> (vblank_sets > k \/ Stopped)

\* the second frame's VBlank has been reached by the NOP; JMP loop
C40_Witness ==
    /\ rom = "idle"
    /\ running
    /\ vblank_sets = 2
    /\ last.op = "iteration"
    /\ last.cycles \in {2, 3}

====
